---- MODULE Spec2Model ----
(***************************************************************************)
(* A model of the Monkey tree-walking interpreter (package evaluator,      *)
(* package object) driven by the REPL loop of package repl.                *)
(*                                                                         *)
(* The evaluator is a recursive function Eval(node, env) over the AST.  It *)
(* is modelled as the recursive operator Eval(node, env, st): st carries   *)
(* everything the Go code reaches through pointers (the environments, the  *)
(* backing arrays of slices, the allocation counter that stands for        *)
(* pointer identity) and the list of statements evaluated so far.  Every   *)
(* evaluator returns the pair [val, st].                                   *)
(*                                                                         *)
(* A Go run-time panic (nil dereference, integer division by zero, index   *)
(* out of range) unwinds every frame of Eval: it is the value PANIC, which *)
(* every evaluator hands on unchanged.                                     *)
(***************************************************************************)
EXTENDS Integers, Sequences, FiniteSets, TLC

VARIABLES
    environments,  \* the environments allocated; the first is env of repl.Start
    mem,           \* the backing arrays of the slices of Array values
    next,          \* the number the next allocated object takes as its identity
    line,          \* the Program parsed from the line read last
    evaluated,     \* evaluated of repl.Start: the value of that line
    trace,         \* what the evaluation of that line did, in order
    pc,            \* "prompt" while Start loops, "aborted" once a panic ended the
                   \* process, "ended" once Start has returned
    out,           \* the strings Start has written to out, in order
    nlines,        \* the number of lines read
    lexer,         \* a Lexer under test, Nil before NewLexer
    calls,         \* the calls of NextToken on it: the lexer before, the token returned
    runs           \* the runs of the parser: source, Program, errors, panic

vars == <<environments, mem, next, line, evaluated, trace, pc, out, nlines, lexer, calls,
          runs>>

(***************************************************************************)
(* Bounds of the model.                                                    *)
(***************************************************************************)
\* Integer literals of the families of input lines lie in 0..MaxLit.
MaxLit == 2
\* Lines of one REPL session after the first one.
MaxFollow == 1
\* The most pairs of a hash literal, and the most hash literals one line evaluates.
MaxPairs == 2
MaxRanges == 2
\* The most digits of a number in a source.
MaxDigits == 9
\* The longest input of the lexer, in bytes, and the most calls of NextToken on it.
MaxInput == 3
MaxCalls == 4
\* The longest token stream of the parser, and the most runs of the parser in a row.
MaxTokens == 4
MaxRuns == 2

\* The identifiers a store can bind: those of the input lines and the names
\* of the builtins, which a let may shadow.
Names == {"x", "y", "f", "g", "a", "b", "quit", "exit",
          "len", "first", "last", "rest", "push", "puts", "type"}

(***************************************************************************)
(* Runtime values (package object).  A value is a record whose field type  *)
(* is the value of Type().                                                 *)
(***************************************************************************)
INTEGEROBJ == "INTEGER"
DOUBLEOBJ == "DOUBLE"
STRINGOBJ == "STRING"
BOOLEANOBJ == "BOOLEAN"
ARRAYOBJ == "ARRAY"
HASHOBJ == "HASH"
NULLOBJ == "NULL"
NANOBJ == "NAN"
RETURNVALUEOBJ == "RETURN_VALUE"
ERROROBJ == "ERROR"
IDENTIFIEROBJ == "IDENTIFIER"
FUNCTIONOBJ == "FUNCTION"
BUILTINOBJ == "BUILTIN"

\* The singletons of the evaluator.  Go compares them by pointer; every
\* Boolean and Null of a run is one of them, so the records compare alike.
NULL == [type |-> NULLOBJ]
NAN == [type |-> NANOBJ]
TrueObj == [type |-> BOOLEANOBJ, bool |-> TRUE]
FalseObj == [type |-> BOOLEANOBJ, bool |-> FALSE]

\* Go's nil interface value: what Eval returns when it has nothing to return.
Nil == [type |-> "nil"]

\* A double is kept as a count of quarters (DScale parts of one): the sums,
\* differences and comparisons of the doubles of the model are exact.
DScale == 4

Integer(n) == [type |-> INTEGEROBJ, int |-> n]
Double(q, p) == [type |-> DOUBLEOBJ, q |-> q, precision |-> p]
String(s) == [type |-> STRINGOBJ, str |-> s]
ReturnValue(id, v) == [type |-> RETURNVALUEOBJ, id |-> id, value |-> v]
Error(m) == [type |-> ERROROBJ, message |-> m]
Identifier(n, v) == [type |-> IDENTIFIEROBJ, name |-> n, value |-> v]
Function(id, params, body, e) ==
    [type |-> FUNCTIONOBJ, id |-> id, parameters |-> params, body |-> body, env |-> e]
Builtin(n) == [type |-> BUILTINOBJ, fn |-> n]
\* An *object.Array: its own identity and its slice header (backing array,
\* offset of element 0, length, capacity).
Array(id, ptr, off, len, cap) ==
    [type |-> ARRAYOBJ, id |-> id, ptr |-> ptr, off |-> off, len |-> len, cap |-> cap]
Hash(id, pairs) == [type |-> HASHOBJ, id |-> id, pairs |-> pairs]

\* The outcome of a Go run-time panic: not a value of the language.
Panic(m) == [type |-> "PANIC", message |-> m]
\* The outcome of an operation whose result the model does not represent
\* (a double that is no whole number of quarters): such lines are not taken.
Unmodelled == [type |-> "UNMODELLED"]

IsAbort(v) == v.type \in {"PANIC", "UNMODELLED"}

\* The trace of st with one more event (the events are defined with the
\* evaluator below).
Log(st, event) == [st EXCEPT !.trace = Append(@, event)]

\* An evaluation returned the Error val, the environments being heap.
Failed(val, heap) == [ev |-> "error", val |-> val, heap |-> heap]

\* return v, the state being st.  The trace records every return of an Error
\* the evaluator makes.
Ret(v, st) ==
    [val |-> v,
     st |-> IF v.type = ERROROBJ THEN Log(st, Failed(v, st.heap)) ELSE st]

newError(m) == Error(m)

isError(obj) == obj # Nil /\ obj.type = ERROROBJ

nativeBoolToBooleanObject(input) == IF input THEN TrueObj ELSE FalseObj

(***************************************************************************)
(* Environments (package object).  st.heap is the sequence of environments *)
(* allocated so far; an *Environment is an index into it.  A store maps    *)
(* every name to its value, or to Absent when the Go map has no entry.     *)
(***************************************************************************)
Absent == [type |-> "absent"]

NewEnvironment == [store |-> [n \in Names |-> Absent], outer |-> 0]

NewEnclosedEnvironment(outer) == [store |-> [n \in Names |-> Absent], outer |-> outer]

RECURSIVE Get(_, _, _)
\* Get(heap, e, name): the value and the ok flag of env.Get.
Get(heap, e, name) ==
    LET obj == heap[e].store[name]
    IN  IF obj # Absent THEN [obj |-> obj, ok |-> TRUE]
        ELSE IF heap[e].outer # 0 THEN Get(heap, heap[e].outer, name)
        ELSE [obj |-> Nil, ok |-> FALSE]

RECURSIVE SetWhereBound(_, _, _, _)
\* Set were it to write the store of the environment that binds name.
SetWhereBound(heap, e, name, val) ==
    IF heap[e].store[name] = Absent /\ heap[e].outer # 0
    THEN SetWhereBound(heap, heap[e].outer, name, val)
    ELSE [heap EXCEPT ![e].store[name] = val]

\* env.Set: writes the store of e itself.
Set(heap, e, name, val) ==
    [heap EXCEPT ![e].store[name] = val]

\* Allocation of an environment: st with the new environment and its index.
AllocEnv(st, environment) ==
    [st EXCEPT !.heap = Append(@, environment)]

(***************************************************************************)
(* Tokens (package token).  A Go string is a TLA+ string: byte i of s is   *)
(* SubSeq(s, i + 1, i + 1) and s[a:b] is SubSeq(s, a + 1, b).              *)
(***************************************************************************)
ILLEGAL == "ILLEGAL"
EOF == "EOF"
IDENT == "IDENTIFIER"
INT == "INTEGER"
DOUBLE == "DOUBLE"
STRING_ == "STRING"
COMMENT == "//"
FUNCTION == "FUNCTION"
LET_ == "LET"
TRUE_ == "TRUE"
FALSE_ == "FALSE"
IF_ == "IF"
ELSE_ == "ELSE"
RETURN == "RETURN"

Token(type, literal) == [Type |-> type, Literal |-> literal]

keywords ==
    [fn |-> FUNCTION, let |-> LET_, true |-> TRUE_, false |-> FALSE_, if |-> IF_,
     else |-> ELSE_, return |-> RETURN]

\* LookupIdent: the type of the identifier or keyword literal.
LookupIdent(literal) ==
    IF literal \in DOMAIN keywords THEN keywords[literal] ELSE IDENT

(***************************************************************************)
(* The AST (package ast).  A node is a record whose field kind names its   *)
(* Go type; the other fields are the fields of that type.                  *)
(***************************************************************************)
TAB == "  "

Program(stmts) == [kind |-> "Program", Statements |-> stmts]
LetStatement(name, value) == [kind |-> "LetStatement", Name |-> name, Value |-> value]
ReturnStatement(value) == [kind |-> "ReturnStatement", Value |-> value]
ExpressionStatement(e) == [kind |-> "ExpressionStatement", Expression |-> e]
BlockStatement(stmts) == [kind |-> "BlockStatement", Statements |-> stmts]
Ident(name) == [kind |-> "Identifier", Value |-> name]
IntegerLiteral(n) == [kind |-> "IntegerLiteral", Value |-> n]
\* The double literal of q quarters written with p fractional digits.
DoubleLiteral(q, p) == [kind |-> "DoubleLiteral", Value |-> q, Precision |-> p]
\* The three nodes whose String() is the literal of their token, as the
\* parser builds them.
StringLiteral(s) == [kind |-> "StringLiteral", Token |-> Token(STRING_, s), Value |-> s]
Boolean(b) ==
    [kind |-> "Boolean",
     Token |-> IF b THEN Token(TRUE_, "true") ELSE Token(FALSE_, "false"),
     Value |-> b]
CommentLiteral(value) ==
    [kind |-> "CommentLiteral", Token |-> Token(COMMENT, value), Value |-> value]
NullLiteral == [kind |-> "NullLiteral"]
PrefixExpression(op, right) == [kind |-> "PrefixExpression", Operator |-> op, Right |-> right]
SuffixExpression(op, left) == [kind |-> "SuffixExpression", Operator |-> op, Left |-> left]
InfixExpression(left, op, right) ==
    [kind |-> "InfixExpression", Left |-> left, Operator |-> op, Right |-> right]
\* Alternative is Nil when the source has no else.
IfExpression(cond, cons, alt) ==
    [kind |-> "IfExpression", Condition |-> cond, Consequence |-> cons, Alternative |-> alt]
FunctionLiteral(params, body) ==
    [kind |-> "FunctionLiteral", Parameters |-> params, Body |-> body]
CallExpression(function, args) ==
    [kind |-> "CallExpression", Function |-> function, Arguments |-> args]
ArrayLiteral(elements) == [kind |-> "ArrayLiteral", Elements |-> elements]
\* Pairs: the key/value expressions, in source order.  The Go map yields them
\* in an order of its own choosing each time it is ranged over.
HashLiteral(pairs) == [kind |-> "HashLiteral", Pairs |-> pairs]
IndexExpression(left, index) == [kind |-> "IndexExpression", Left |-> left, Index |-> index]

\* The orders in which a Go map of at most MaxPairs entries can be ranged
\* over, and the orders of the MaxRanges iterations of one evaluation.
SourceOrder == [i \in 1..MaxPairs |-> i]

Iterations ==
    {s \in [1..MaxPairs -> 1..MaxPairs] : \A i, j \in 1..MaxPairs : i # j => s[i] # s[j]}

Orders == [1..MaxRanges -> Iterations]

(***************************************************************************)
(* utils                                                                   *)
(***************************************************************************)
InArray(needle, haystack) == \E i \in 1..Len(haystack) : haystack[i] = needle

MaxInt(a, b) == IF b > a THEN b ELSE a

\* The characters after the point of a string with one point, 0 for any
\* other string.
Precision(s) ==
    IF Cardinality({i \in 1..Len(s) : SubSeq(s, i, i) = "."}) # 1 THEN 0
    ELSE Len(s) - (CHOOSE i \in 1..Len(s) : SubSeq(s, i, i) = ".")

\* val named by a parameter of what follows:  x := val; ...
With(val, Then(_)) == Then(val)

Abs(n) == IF n < 0 THEN -n ELSE n

Digit(d) ==
    CASE d = 0 -> "0" [] d = 1 -> "1" [] d = 2 -> "2" [] d = 3 -> "3" [] d = 4 -> "4"
      [] d = 5 -> "5" [] d = 6 -> "6" [] d = 7 -> "7" [] d = 8 -> "8" [] d = 9 -> "9"

RECURSIVE Digits(_)
Digits(n) == IF n < 10 THEN Digit(n) ELSE Digits(n \div 10) \o Digit(n % 10)

\* The decimal digits of f quarters.
QuarterDigits(f) == CASE f = 0 -> "" [] f = 1 -> "25" [] f = 2 -> "5" [] f = 3 -> "75"

RECURSIVE TrimRight(_)
\* The digits without the zeros at their end.
TrimRight(digits) ==
    IF Len(digits) > 1 /\ SubSeq(digits, Len(digits), Len(digits)) = "0"
    THEN TrimRight(SubSeq(digits, 1, Len(digits) - 1))
    ELSE digits

\* The notation d.ddde+xx of the digits of a number with the exponent e.
Exponent(digits, e) ==
    SubSeq(digits, 1, 1)
    \o (IF Len(digits) > 1 THEN "." \o SubSeq(digits, 2, Len(digits)) ELSE "")
    \o "e+" \o (IF e < 10 THEN "0" ELSE "") \o Digits(e)

\* strconv's format 'g' of the shortest digits: the exponent notation once
\* the exponent is 6 or more.
Shortest(whole, fraction) ==
    IF Len(whole) - 1 < 6
    THEN whole \o (IF fraction = "" THEN "" ELSE "." \o fraction)
    ELSE Exponent(TrimRight(whole \o fraction), Len(whole) - 1)

\* fmt.Sprint(v) for the double of q quarters: the shortest digits that read
\* back as v (4 prints as "4", 0.25 as "0.25", 1500000 as "1.5e+06" and
\* 1000000 as "1e+06").  No double of the model is small enough for a
\* negative exponent.
Sprint(q) ==
    (IF q < 0 THEN "-" ELSE "")
    \o Shortest(Digits(Abs(q) \div DScale), QuarterDigits(Abs(q) % DScale))

RECURSIVE Zeros(_)
\* n zeros in a row.
Zeros(n) == IF n <= 0 THEN "" ELSE "0" \o Zeros(n - 1)

\* The digits of whole and f quarters in fixed notation, rounded to
\* precision digits after the point.  A quarter is a double without error,
\* so that a tie is one of the number itself, and strconv rounds it to even:
\* 0.5 and 2.5 give "0" and "2", 1.5 gives "2", 0.25 gives "0.2" and 0.75 "0.8".
Fixed(whole, f, precision) ==
    IF precision = 0
    THEN Digits(IF f = 3 \/ (f = 2 /\ whole % 2 = 1) THEN whole + 1 ELSE whole)
    ELSE IF precision = 1
    THEN Digits(whole) \o "." \o (CASE f = 0 -> "0" [] f = 1 -> "2" [] f = 2 -> "5" [] f = 3 -> "8")
    ELSE Digits(whole) \o "."
         \o (CASE f = 0 -> "00" [] f = 1 -> "25" [] f = 2 -> "50" [] f = 3 -> "75")
         \o Zeros(precision - 2)

\* strconv.FormatFloat(v, 'f', precision, 64) of q quarters; the sign of a
\* negative number stays on a text that rounds to zero ("-0").
FormatFloat(q, precision) ==
    (IF q < 0 THEN "-" ELSE "") \o Fixed(Abs(q) \div DScale, Abs(q) % DScale, precision)

(***************************************************************************)
(* The arithmetic of the evaluator.                                        *)
(***************************************************************************)
\* Go's integer division truncates toward zero.
GoQuot(l, r) ==
    IF (l < 0) = (r < 0) THEN Abs(l) \div Abs(r) ELSE -(Abs(l) \div Abs(r))

\* The model holds the integers of 32 bits, and the doubles whose count of
\* quarters is one: a sum or a product past them is a result the model does
\* not represent (an int64 of Go wraps around much later, and a float64 is
\* exact up to 2^53).
FitsSum(a, b) == IF b >= 0 THEN a <= 2147483647 - b ELSE a >= (-2147483647) - b

FitsProduct(a, b) == a = 0 \/ Abs(b) <= 2147483647 \div Abs(a)

\* The float64 result is the zero with the sign bit set (-0.0, which prints
\* as "-0"): a zero that the signs of the operands make negative.  The
\* doubles of the model have one zero, and hold no such result.
NegativeZero(q, negative) == q = 0 /\ negative

evalPlusOperatorIntegerExpression(lvalue, rvalue) ==
    IF FitsSum(lvalue, rvalue) THEN Integer(lvalue + rvalue) ELSE Unmodelled

evalSubtractOperatorIntegerExpression(lvalue, rvalue) ==
    IF FitsSum(lvalue, -rvalue) THEN Integer(lvalue - rvalue) ELSE Unmodelled

evalMultiplyOperatorIntegerExpression(lvalue, rvalue) ==
    IF FitsProduct(lvalue, rvalue) THEN Integer(lvalue * rvalue) ELSE Unmodelled

\* lvalue / rvalue: the Go run time panics when rvalue is 0.
evalDivideOperatorIntegerExpression(lvalue, rvalue) ==
    IF rvalue = 0 THEN Panic("runtime error: integer divide by zero")
    ELSE Integer(GoQuot(lvalue, rvalue))

evalPlusOperatorDoubleExpression(lvalue, rvalue, precision) ==
    IF FitsSum(lvalue, rvalue) THEN Double(lvalue + rvalue, precision) ELSE Unmodelled

evalSubtractOperatorDoubleExpression(lvalue, rvalue, precision) ==
    IF FitsSum(lvalue, -rvalue) THEN Double(lvalue - rvalue, precision) ELSE Unmodelled

evalMultiplyOperatorDoubleExpression(lvalue, rvalue, precision) ==
    IF ~FitsProduct(lvalue, rvalue) THEN Unmodelled
    ELSE IF (lvalue * rvalue) % DScale # 0 THEN Unmodelled
    ELSE IF NegativeZero(lvalue * rvalue, lvalue < 0 \/ rvalue < 0) THEN Unmodelled
    ELSE LET product == (lvalue * rvalue) \div DScale
         IN  Double(product, MaxInt(precision, Precision(Sprint(product))))

\* lvalue / rvalue on float64: a zero divisor gives an infinity or a NaN,
\* which the model does not represent.
evalDivideOperatorDoubleExpression(lvalue, rvalue, precision) ==
    IF rvalue = 0 \/ ~FitsProduct(lvalue, DScale) THEN Unmodelled
    ELSE IF (Abs(lvalue) * DScale) % Abs(rvalue) # 0 THEN Unmodelled
    ELSE IF NegativeZero(lvalue, rvalue < 0) THEN Unmodelled
    ELSE LET div == GoQuot(lvalue * DScale, rvalue)
         IN  Double(div, MaxInt(precision, Precision(Sprint(div))))

RECURSIVE IntPow(_, _)
\* l to the power r, for r >= 0.
IntPow(l, r) ==
    IF r = 0 \/ l = 1 THEN 1
    ELSE IF l = 0 THEN 0
    ELSE IF l = -1 THEN (IF r % 2 = 0 THEN 1 ELSE -1)
    ELSE l * IntPow(l, r - 1)

RECURSIVE FitsPower(_, _)
FitsPower(l, r) ==
    \/ r = 0
    \/ Abs(l) <= 1
    \/ r <= 31 /\ FitsPower(l, r - 1) /\ FitsProduct(l, IntPow(l, r - 1))

\* int64(math.Pow(float64(l), float64(r))); a negative exponent gives a
\* fraction, which the conversion truncates (0 for |l| > 1).
PowInt64(l, r) ==
    IF r >= 0 THEN (IF FitsPower(l, r) THEN Integer(IntPow(l, r)) ELSE Unmodelled)
    ELSE IF l = 1 THEN Integer(1)
    ELSE IF l = -1 THEN Integer(IF (-r) % 2 = 0 THEN 1 ELSE -1)
    ELSE IF l = 0 THEN Unmodelled
    ELSE Integer(0)

\* int64(math.Mod(float64(l), float64(r))): the remainder has the sign of l.
ModInt64(l, r) ==
    IF r = 0 THEN Unmodelled ELSE Integer(l - r * GoQuot(l, r))

evalIntegerInfixExpression(operator, left, right) ==
    LET lvalue == left.int
        rvalue == right.int
    IN  CASE operator \in {"+", "+="} -> evalPlusOperatorIntegerExpression(lvalue, rvalue)
          [] operator \in {"-", "-="} -> evalSubtractOperatorIntegerExpression(lvalue, rvalue)
          [] operator \in {"*", "*="} -> evalMultiplyOperatorIntegerExpression(lvalue, rvalue)
          [] operator \in {"/", "/="} -> evalDivideOperatorIntegerExpression(lvalue, rvalue)
          [] operator = "<" -> nativeBoolToBooleanObject(lvalue < rvalue)
          [] operator = "<=" -> nativeBoolToBooleanObject(lvalue <= rvalue)
          [] operator = ">" -> nativeBoolToBooleanObject(lvalue > rvalue)
          [] operator = ">=" -> nativeBoolToBooleanObject(lvalue >= rvalue)
          [] operator = "==" -> nativeBoolToBooleanObject(lvalue = rvalue)
          [] operator = "!=" -> nativeBoolToBooleanObject(lvalue # rvalue)
          [] operator = "^" -> PowInt64(lvalue, rvalue)
          [] operator = "%" -> ModInt64(lvalue, rvalue)
          [] OTHER -> newError("unknown operator: " \o left.type \o " " \o operator
                               \o " " \o right.type)

\* &object.Double{Value: val, Precision: utils.Precision(fmt.Sprint(val))}
NewDouble(val) == Double(val, Precision(Sprint(val)))

\* The float64 of an Integer or a Double, in quarters, when the model holds it.
Converts(obj) == obj.type = DOUBLEOBJ \/ FitsProduct(obj.int, DScale)

Quarters(obj) == IF obj.type = DOUBLEOBJ THEN obj.q ELSE obj.int * DScale

\* The root of a perfect square, -1 for any other number.
Sqrt(n) ==
    IF n >= 0 /\ \E s \in 0..(IF n > 46340 THEN 46340 ELSE n) : s * s = n
    THEN CHOOSE s \in 0..(IF n > 46340 THEN 46340 ELSE n) : s * s = n
    ELSE -1

\* a^m / b^n when the model holds the powers and the quotient is whole.
Ratio(a, m, b, n) ==
    IF FitsPower(a, m) /\ FitsPower(b, n) /\ Abs(IntPow(a, m)) % Abs(IntPow(b, n)) = 0
    THEN [ok |-> TRUE, q |-> GoQuot(IntPow(a, m), IntPow(b, n))]
    ELSE [ok |-> FALSE, q |-> 0]

\* math.Pow(x, y) for x of lq quarters and y of rq quarters, in quarters:
\* Pow(x, 0) and Pow(1, y) are 1, Pow(x, 0.5) is Sqrt(x), a whole y is a
\* product of x's or its inverse.  ok is FALSE for a result that is not a
\* count of quarters (an infinity, a NaN or another fraction), which the
\* model does not represent.
Pow(lq, rq) ==
    IF rq = 0 \/ lq = DScale THEN [ok |-> TRUE, q |-> DScale]
    ELSE IF rq % DScale # 0
    THEN IF lq = 0 /\ rq > 0 THEN [ok |-> TRUE, q |-> 0]
         ELSE IF rq = DScale \div 2 /\ Sqrt(lq) >= 0 THEN [ok |-> TRUE, q |-> 2 * Sqrt(lq)]
         ELSE [ok |-> FALSE, q |-> 0]
    ELSE IF rq > 0 THEN Ratio(lq, rq \div DScale, DScale, (rq \div DScale) - 1)
    ELSE IF lq = 0 THEN [ok |-> FALSE, q |-> 0]
    ELSE Ratio(DScale, ((-rq) \div DScale) + 1, lq, (-rq) \div DScale)

evalPowerOperatorDoubleIntegerExpression(left, right) ==
    IF ~(left.type \in {INTEGEROBJ, DOUBLEOBJ} /\ right.type \in {INTEGEROBJ, DOUBLEOBJ})
    THEN newError("type mismatch: " \o left.type \o " ^ " \o right.type)
    ELSE IF ~(Converts(left) /\ Converts(right)) THEN Unmodelled
    ELSE IF ~Pow(Quarters(left), Quarters(right)).ok THEN Unmodelled
    ELSE NewDouble(Pow(Quarters(left), Quarters(right)).q)

\* The condition that guards the type mismatch is false for every pair of
\* types; operands that are no numbers fail the type assertions.  math.Mod
\* gives the remainder with the sign of the left operand, and a NaN for a
\* zero right operand, which the model does not represent.
evalModulusOperatorDoubleIntegerExpression(left, right) ==
    IF ~(left.type \in {INTEGEROBJ, DOUBLEOBJ} /\ right.type \in {INTEGEROBJ, DOUBLEOBJ})
    THEN Panic("interface conversion: object.Object is not *object.Integer")
    ELSE IF ~(Converts(left) /\ Converts(right)) THEN Unmodelled
    ELSE IF Quarters(right) = 0 THEN Unmodelled
    ELSE IF NegativeZero(Quarters(left) - Quarters(right) * GoQuot(Quarters(left), Quarters(right)),
                         Quarters(left) < 0)
    THEN Unmodelled
    ELSE NewDouble(Quarters(left) - Quarters(right) * GoQuot(Quarters(left), Quarters(right)))

evalDoubleInfixExpression(operator, left, right) ==
    LET lvalue == left.q
        rvalue == right.q
        precision == MaxInt(left.precision, right.precision)
    IN  CASE operator \in {"+", "+="} ->
               evalPlusOperatorDoubleExpression(lvalue, rvalue, precision)
          [] operator \in {"-", "-="} ->
               evalSubtractOperatorDoubleExpression(lvalue, rvalue, precision)
          [] operator \in {"*", "*="} ->
               evalMultiplyOperatorDoubleExpression(lvalue, rvalue, precision)
          [] operator \in {"/", "/="} ->
               evalDivideOperatorDoubleExpression(lvalue, rvalue, precision)
          [] operator = "<" -> nativeBoolToBooleanObject(lvalue < rvalue)
          [] operator = "<=" -> nativeBoolToBooleanObject(lvalue <= rvalue)
          [] operator = ">" -> nativeBoolToBooleanObject(lvalue > rvalue)
          [] operator = ">=" -> nativeBoolToBooleanObject(lvalue >= rvalue)
          [] operator = "==" -> nativeBoolToBooleanObject(lvalue = rvalue)
          [] operator = "!=" -> nativeBoolToBooleanObject(lvalue # rvalue)
          [] operator = "^" -> evalPowerOperatorDoubleIntegerExpression(left, right)
          [] operator = "%" -> evalModulusOperatorDoubleIntegerExpression(left, right)
          [] OTHER -> newError("unknown operator: " \o left.type \o " " \o operator
                               \o " " \o right.type)

evalBooleanInfixExpression(operator, left, right) ==
    LET lvalue == left.bool
        rvalue == right.bool
    IN  CASE operator = "!=" -> nativeBoolToBooleanObject(lvalue # rvalue)
          [] operator = "==" -> nativeBoolToBooleanObject(lvalue = rvalue)
          [] operator = "&&" -> nativeBoolToBooleanObject(lvalue /\ rvalue)
          [] operator = "||" -> nativeBoolToBooleanObject(lvalue \/ rvalue)
          [] OTHER -> newError("unknown operator: " \o left.type \o " " \o operator
                               \o " " \o right.type)

evalStringInfixExpression(operator, left, right) ==
    LET lvalue == left.str
        rvalue == right.str
    IN  CASE operator = "!=" -> nativeBoolToBooleanObject(lvalue # rvalue)
          [] operator = "==" -> nativeBoolToBooleanObject(lvalue = rvalue)
          [] operator = "+" -> String(lvalue \o rvalue)
          [] operator = "+=" -> String(lvalue \o rvalue)
          [] OTHER -> newError("unknown operator: " \o left.type \o " " \o operator
                               \o " " \o right.type)

\* Every falsy left operand gives way to the right one.
evalNullOrOperatorExpressionFalsy(left, right) ==
    IF left = NULL \/ left = FalseObj THEN right ELSE left

evalNullOrOperatorExpression(left, right) == IF left = NULL THEN right ELSE left

\* l == r on two interface values that hold pointers: the same object.  The
\* singletons and the builtins are one object each; an array, a hash, a
\* function and a return value carry the identity they were allocated with.
\* (Integers, doubles, strings and booleans never reach this comparison.)
SameObject(l, r) ==
    IF l.type # r.type THEN FALSE
    ELSE IF l.type \in {ARRAYOBJ, HASHOBJ, FUNCTIONOBJ, RETURNVALUEOBJ} THEN l.id = r.id
    ELSE l = r

\* Type() through a nil interface value panics.
NilDeref == Panic("runtime error: invalid memory address or nil pointer dereference")

\* The operands are never nil here with a nil inside: an Identifier wraps
\* a value whose Type() evalIdentifier has already called.
evalInfixExpressionByType(operator, left, right) ==
    IF left = Nil \/ right = Nil THEN NilDeref
    ELSE
    LET l == IF left.type = IDENTIFIEROBJ THEN left.value ELSE left
        r == IF right.type = IDENTIFIEROBJ THEN right.value ELSE right
        IntDouble == l.type = INTEGEROBJ /\ r.type = DOUBLEOBJ
        DoubleInt == l.type = DOUBLEOBJ /\ r.type = INTEGEROBJ
        IntInt == l.type = INTEGEROBJ /\ r.type = INTEGEROBJ
        DoubleDouble == l.type = DOUBLEOBJ /\ r.type = DOUBLEOBJ
        mismatch == newError("type mismatch: " \o l.type \o " " \o operator \o " " \o r.type)
    IN  IF operator = "??" THEN evalNullOrOperatorExpression(l, r)
        ELSE IF operator = "^" THEN
            IF IntDouble THEN evalPowerOperatorDoubleIntegerExpression(l, r)
            ELSE IF DoubleInt THEN evalPowerOperatorDoubleIntegerExpression(l, r)
            ELSE IF IntInt THEN evalIntegerInfixExpression(operator, l, r)
            ELSE IF DoubleDouble THEN evalDoubleInfixExpression(operator, l, r)
            ELSE mismatch
        ELSE IF operator = "%" THEN
            IF IntDouble THEN evalModulusOperatorDoubleIntegerExpression(l, r)
            ELSE IF DoubleInt THEN evalModulusOperatorDoubleIntegerExpression(l, r)
            ELSE IF IntInt THEN evalIntegerInfixExpression(operator, l, r)
            ELSE IF DoubleDouble THEN evalDoubleInfixExpression(operator, l, r)
            ELSE mismatch
        ELSE IF IntInt THEN evalIntegerInfixExpression(operator, l, r)
        ELSE IF DoubleDouble THEN evalDoubleInfixExpression(operator, l, r)
        ELSE IF l.type = BOOLEANOBJ /\ r.type = BOOLEANOBJ
            THEN evalBooleanInfixExpression(operator, l, r)
        ELSE IF l.type = STRINGOBJ /\ r.type = STRINGOBJ
            THEN evalStringInfixExpression(operator, l, r)
        ELSE IF operator \in {"+", "+=", "-", "-=", "*", "*=", "/", "/=",
                              "<", "<=", ">", ">=", "==", "!="} THEN
            IF (IntDouble /\ ~Converts(l)) \/ (DoubleInt /\ ~Converts(r)) THEN Unmodelled
            ELSE IF IntDouble
                THEN evalDoubleInfixExpression(operator, Double(l.int * DScale, 0), r)
            ELSE IF DoubleInt
                THEN evalDoubleInfixExpression(operator, l, Double(r.int * DScale, 0))
            ELSE IF operator = "==" THEN nativeBoolToBooleanObject(SameObject(l, r))
            ELSE IF operator = "!=" THEN nativeBoolToBooleanObject(~SameObject(l, r))
            ELSE mismatch
        ELSE IF l.type # r.type THEN mismatch
        ELSE IF operator = "==" THEN nativeBoolToBooleanObject(SameObject(l, r))
        ELSE IF operator = "!=" THEN nativeBoolToBooleanObject(~SameObject(l, r))
        ELSE newError("unknown operator: " \o l.type \o " " \o operator \o " " \o r.type)

(***************************************************************************)
(* Allocation.  st.next numbers the objects allocated so far (the identity *)
(* of a pointer); st.mem holds the backing arrays of the slices.           *)
(***************************************************************************)
\* The elements of an array value, as Go reads them through its slice.
Elements(st, arr) == [i \in 1..arr.len |-> st.mem[arr.ptr][arr.off + i]]

\* The sizes in bytes, up to 512, of the blocks the allocator of the Go
\* runtime hands out.  Above 512 bytes the block of a slice of object.Object
\* values depends on the toolchain (Go 1.22 and later put a header of 8 bytes
\* into it), and the model holds no size there.
SizeClasses ==
    <<8, 16, 24, 32, 48, 64, 80, 96, 112, 128, 144, 160, 176, 192, 208, 224, 240, 256,
      288, 320, 352, 384, 416, 448, 480, 512>>

\* The size of the block the allocator gives for size bytes, size <= 512.
roundupsize(size) ==
    SizeClasses[CHOOSE i \in 1..Len(SizeClasses) :
                   SizeClasses[i] >= size /\ (i = 1 \/ SizeClasses[i - 1] < size)]

\* Whether the model holds the capacity append grows a full slice of the
\* capacity cap to: up to 16 elements the grown slice takes at most 512
\* bytes, and every Go runtime gives it the same block.
Grows(cap) == cap <= 16

\* The capacity append gives a full slice of object.Object values (16 bytes
\* each) that it has to grow by one element, for Grows(cap): twice the
\* capacity, 1 for an empty slice, rounded up to the block the allocator
\* hands out.
GrowCap(cap) == roundupsize((IF cap = 0 THEN 1 ELSE 2 * cap) * 16) \div 16

RECURSIVE CapOfAppends(_)
\* The capacity of a slice built by n appends to a nil slice.
CapOfAppends(n) ==
    IF n = 0 THEN 0
    ELSE LET c == CapOfAppends(n - 1) IN IF n > c THEN GrowCap(c) ELSE c

RECURSIVE GrowsTo(_)
\* Whether the model holds the capacity of a slice built by n appends to a
\* nil slice: it holds every capacity the appends grow the slice from.
GrowsTo(n) ==
    n = 0 \/ (GrowsTo(n - 1) /\ (n > CapOfAppends(n - 1) => Grows(CapOfAppends(n - 1))))

\* A backing array of capacity cap that starts with the values elems.
Backing(elems, cap) == [i \in 1..cap |-> IF i <= Len(elems) THEN elems[i] ELSE Nil]

\* &object.Array{Elements: elems} for a slice built by appends to nil.
NewArray(elems, st) ==
    IF Len(elems) = 0
    THEN Ret(Array(st.next, 0, 0, 0, 0), [st EXCEPT !.next = @ + 1])
    ELSE IF ~GrowsTo(Len(elems)) THEN Ret(Unmodelled, st)
    ELSE LET cap == CapOfAppends(Len(elems))
         IN  Ret(Array(st.next, Len(st.mem) + 1, 0, Len(elems), cap),
                 [st EXCEPT !.next = @ + 1, !.mem = Append(@, Backing(elems, cap))])

(***************************************************************************)
(* Builtins (the table builtins of package evaluator).                     *)
(***************************************************************************)
builtins == {"len", "first", "last", "rest", "push", "puts", "type"}

\* In the messages below ' stands for the backquote of the Go strings.

\* args[0] with an Identifier wrapper removed; Type() on nil panics.
Unwrapped(arg) == IF arg.type = IDENTIFIEROBJ THEN arg.value ELSE arg

\* strings.ToLower of a type tag.
ToLower(t) ==
    CASE t = INTEGEROBJ -> "integer" [] t = DOUBLEOBJ -> "double"
      [] t = STRINGOBJ -> "string" [] t = BOOLEANOBJ -> "boolean"
      [] t = ARRAYOBJ -> "array" [] t = HASHOBJ -> "hash"
      [] t = NULLOBJ -> "null" [] t = NANOBJ -> "nan"
      [] t = RETURNVALUEOBJ -> "return_value" [] t = ERROROBJ -> "error"
      [] t = IDENTIFIEROBJ -> "identifier" [] t = FUNCTIONOBJ -> "function"
      [] t = BUILTINOBJ -> "builtin"

\* fmt.Sprintf("%d", n)
Itoa(n) == IF n < 0 THEN "-" \o Digits(-n) ELSE Digits(n)

WrongNumber(args, want) ==
    newError("wrong number of arguments. got=" \o Itoa(Len(args)) \o ", want=" \o want)

_len(args, st) ==
    IF Len(args) # 1 THEN Ret(WrongNumber(args, "1"), st)
    ELSE IF args[1] = Nil THEN Ret(NilDeref, st)
    ELSE LET arg == Unwrapped(args[1])
         IN  IF arg.type = STRINGOBJ THEN Ret(Integer(Len(arg.str)), st)
             ELSE IF arg.type = ARRAYOBJ THEN Ret(Integer(arg.len), st)
             ELSE Ret(newError("argument to 'len' not supported, got " \o args[1].type
                               \o ", want " \o STRINGOBJ \o " or " \o ARRAYOBJ), st)

_first(args, st) ==
    IF Len(args) # 1 THEN Ret(WrongNumber(args, "1"), st)
    ELSE IF args[1] = Nil THEN Ret(NilDeref, st)
    ELSE LET arg == Unwrapped(args[1])
         IN  IF arg.type # ARRAYOBJ
             THEN Ret(newError("argument to 'first' must be ARRAY, got " \o arg.type), st)
             ELSE IF arg.len > 0 THEN Ret(Elements(st, arg)[1], st)
             ELSE Ret(NULL, st)

_last(args, st) ==
    IF Len(args) # 1 THEN Ret(WrongNumber(args, "1"), st)
    ELSE IF args[1] = Nil THEN Ret(NilDeref, st)
    ELSE LET arg == Unwrapped(args[1])
         IN  IF arg.type # ARRAYOBJ
             THEN Ret(newError("argument to 'last' must be ARRAY, got " \o arg.type), st)
             ELSE IF arg.len > 0 THEN Ret(Elements(st, arg)[arg.len], st)
             ELSE Ret(NULL, st)

\* elements[1:length] shares the backing array of its argument.
_rest(args, st) ==
    IF Len(args) # 1 THEN Ret(WrongNumber(args, "1"), st)
    ELSE IF args[1] = Nil THEN Ret(NilDeref, st)
    ELSE LET arg == Unwrapped(args[1])
         IN  IF arg.type # ARRAYOBJ
             THEN Ret(newError("argument to 'last' must be ARRAY, got " \o arg.type), st)
             ELSE IF arg.len > 0
             THEN Ret(Array(st.next, arg.ptr, arg.off + 1, arg.len - 1, arg.cap - 1),
                      [st EXCEPT !.next = @ + 1])
             ELSE Ret(NULL, st)

\* append(elements, val): writes the spare slot of the backing array when
\* there is one, and copies to a grown backing array otherwise.
_push(args, st) ==
    IF Len(args) # 2 THEN Ret(WrongNumber(args, "2"), st)
    ELSE IF args[1] = Nil \/ args[2] = Nil THEN Ret(NilDeref, st)
    ELSE LET arg == Unwrapped(args[1])
             val == Unwrapped(args[2])
         IN  IF arg.type # ARRAYOBJ
             THEN Ret(newError("first argument to 'push' must be ARRAY, got " \o arg.type), st)
             ELSE IF arg.len < arg.cap
             THEN Ret(Array(st.next, arg.ptr, arg.off, arg.len + 1, arg.cap),
                      [st EXCEPT !.next = @ + 1,
                                 !.mem[arg.ptr][arg.off + arg.len + 1] = val])
             ELSE IF ~Grows(arg.cap) THEN Ret(Unmodelled, st)
             ELSE LET cap == GrowCap(arg.cap)
                  IN  Ret(Array(st.next, Len(st.mem) + 1, 0, arg.len + 1, cap),
                          [st EXCEPT !.next = @ + 1,
                                     !.mem = Append(@, Backing(Append(Elements(st, arg), val),
                                                               cap))])

RECURSIVE Join(_, _)
\* strings.Join
Join(elems, sep) ==
    IF elems = <<>> THEN ""
    ELSE IF Len(elems) = 1 THEN elems[1]
    ELSE elems[1] \o sep \o Join(Tail(elems), sep)

\* The first of the objects that is no String, Nil when all are.
FirstNoString(objs) ==
    IF \E i \in 1..Len(objs) : objs[i].type # STRINGOBJ
    THEN objs[CHOOSE i \in 1..Len(objs) :
                 objs[i].type # STRINGOBJ /\ \A j \in 1..(i - 1) : objs[j].type = STRINGOBJ]
    ELSE Nil

\* The texts of the objects joined by sep between open and close, or the
\* first of the objects that is no String.
Joined(value, open, sep, close) ==
    IF FirstNoString(value) # Nil THEN FirstNoString(value)
    ELSE String(open \o Join([i \in 1..Len(value) |-> value[i].str], sep) \o close)

\* The nodes that the String of a node calls String on, in the order of the
\* source; the pairs of a hash literal give a key and a value each.
Children(node) ==
    LET kind == node.kind
    IN  CASE kind \in {"Program", "BlockStatement"} -> node.Statements
          [] kind = "LetStatement" -> <<node.Name, node.Value>>
          [] kind = "ReturnStatement" -> <<node.Value>>
          [] kind = "ExpressionStatement" -> <<node.Expression>>
          [] kind = "PrefixExpression" -> <<node.Right>>
          [] kind = "SuffixExpression" -> <<node.Left>>
          [] kind = "InfixExpression" -> <<node.Left, node.Right>>
          [] kind = "IfExpression" -> <<node.Condition, node.Consequence, node.Alternative>>
          [] kind = "ArrayLiteral" -> node.Elements
          [] kind = "HashLiteral" ->
               [i \in 1..(2 * Len(node.Pairs)) |->
                   IF i % 2 = 1 THEN node.Pairs[(i + 1) \div 2].Key
                   ELSE node.Pairs[i \div 2].Value]
          [] kind = "IndexExpression" -> <<node.Left, node.Index>>
          [] kind = "FunctionLiteral" -> node.Parameters \o node.Body.Statements
          [] kind = "CallExpression" -> <<node.Function>> \o node.Arguments
          [] OTHER -> <<>>

RECURSIVE Ranges(_)
RECURSIVE RangesOf(_)
\* The ranges over a Go map that the String of a node makes, one for each
\* hash literal of the node, as the numbers of pairs of the literals in the
\* order of the source.
Ranges(node) ==
    IF node = Nil THEN <<>>
    ELSE (IF node.kind = "HashLiteral" THEN <<Len(node.Pairs)>> ELSE <<>>)
         \o RangesOf(Children(node))

\* The ranges of the nodes of a sequence, one node after the other.
RangesOf(nodes) ==
    IF nodes = <<>> THEN <<>> ELSE Ranges(Head(nodes)) \o RangesOf(Tail(nodes))

\* The orders in which a range over a Go map of n pairs can go.
Perms(n) ==
    IF n = 0 THEN {<<>>}
    ELSE {s \in [1..n -> 1..n] : \A i, j \in 1..n : i # j => s[i] # s[j]}

RECURSIVE OrdersOver(_)
\* The orders of a sequence of ranges: every range takes an order of its own.
OrdersOver(ranges) ==
    IF ranges = <<>> THEN {<<>>}
    ELSE {<<first>> \o rest : first \in Perms(Head(ranges)), rest \in OrdersOver(Tail(ranges))}

\* The orders that the ranges of the String of a node can take, and the one
\* of them in which every range goes in the order of the source.
OrdersOf(node) == OrdersOver(Ranges(node))
SourceOrders(node) ==
    [r \in 1..Len(Ranges(node)) |-> [i \in 1..Ranges(node)[r] |-> i]]

\* The orders of the ranges of the k-th child of a node, out of the orders
\* of the ranges of the node: the ones past the range of the node itself
\* and past the ranges of the children before.
For(node, k, orders) ==
    IF orders = <<>> THEN orders
    ELSE SubSeq(orders,
                (IF node.kind = "HashLiteral" THEN 1 ELSE 0)
                + Len(RangesOf(SubSeq(Children(node), 1, k - 1))) + 1,
                Len(orders))

RECURSIVE NodeString(_, _)
\* Function.Inspect, with the maps of the body ranged over in the given
\* orders, one for each hash literal of the body.
FunctionText(obj, orders) ==
    "fn (" \o Join([i \in 1..Len(obj.parameters) |->
                       NodeString(obj.parameters[i], <<>>)], ", ")
    \o ") {\n"
    \o Join([i \in 1..Len(obj.body.Statements) |->
               TAB \o NodeString(obj.body.Statements[i], For(obj.body, i, orders)) \o "\n"], "")
    \o "};"

\* Inspect of a Double: the value with precision digits after the point.
DoubleInspect(obj) == String(FormatFloat(obj.q, obj.precision))

RECURSIVE Inspect(_, _)
\* obj.Inspect(), as a String; a nil obj panics.  The Inspect of a Hash is
\* not in the sources, and the text of a function whose body holds a hash
\* literal depends on the order of a range over a Go map: the model does not
\* represent these.
Inspect(obj, st) ==
    IF obj = Nil THEN NilDeref
    ELSE IF obj.type = INTEGEROBJ THEN String(Itoa(obj.int))
    ELSE IF obj.type = STRINGOBJ THEN String(obj.str)
    ELSE IF obj.type = BOOLEANOBJ THEN String(IF obj.bool THEN "true" ELSE "false")
    ELSE IF obj.type = NULLOBJ THEN String("null")
    ELSE IF obj.type = NANOBJ THEN String("NAN")
    ELSE IF obj.type = DOUBLEOBJ THEN DoubleInspect(obj)
    ELSE IF obj.type = ERROROBJ THEN String("ERROR: " \o obj.message)
    ELSE IF obj.type = BUILTINOBJ THEN String("builtin function")
    ELSE IF obj.type \in {RETURNVALUEOBJ, IDENTIFIEROBJ} THEN Inspect(obj.value, st)
    ELSE IF obj.type = ARRAYOBJ
    THEN Joined([i \in 1..obj.len |-> Inspect(Elements(st, obj)[i], st)], "[", ", ", "]")
    ELSE IF obj.type = FUNCTIONOBJ
    THEN IF \A orders \in OrdersOf(obj.body) :
                FunctionText(obj, orders) = FunctionText(obj, SourceOrders(obj.body))
         THEN String(FunctionText(obj, SourceOrders(obj.body)))
         ELSE Unmodelled
    ELSE Unmodelled

_puts(args, st) ==
    Ret(Joined([i \in 1..Len(args) |-> Inspect(args[i], st)], "", "\n", ""), st)

_type(args, st) ==
    IF Len(args) # 1 THEN Ret(WrongNumber(args, "1"), st)
    ELSE IF args[1] = Nil THEN Ret(NilDeref, st)
    ELSE Ret(String(ToLower(Unwrapped(args[1]).type)), st)

\* fn.Fn(args...) for the builtin of the given name.
CallBuiltin(name, args, st) ==
    CASE name = "len" -> _len(args, st)
      [] name = "first" -> _first(args, st)
      [] name = "last" -> _last(args, st)
      [] name = "rest" -> _rest(args, st)
      [] name = "push" -> _push(args, st)
      [] name = "puts" -> _puts(args, st)
      [] name = "type" -> _type(args, st)

(***************************************************************************)
(* Hash keys (object.Hashable).                                            *)
(***************************************************************************)
Hashable(v) == v # Nil /\ v.type \in {INTEGEROBJ, DOUBLEOBJ, STRINGOBJ, BOOLEANOBJ}

\* HashKey(): the type tag and a number (the string itself stands for its
\* FNV-1a hash, whose collisions the model leaves out).
HashKey(v) ==
    CASE v.type = INTEGEROBJ -> [type |-> v.type, int |-> v.int]
      [] v.type = DOUBLEOBJ -> [type |-> v.type, int |-> GoQuot(v.q, DScale)]
      [] v.type = BOOLEANOBJ -> [type |-> v.type, int |-> IF v.bool THEN 1 ELSE 0]
      [] v.type = STRINGOBJ -> [type |-> v.type, str |-> v.str]

\* pairs[hashed] = HashPair{key, value}: a map is the set of its pairs, one
\* for each hashed key.
PutPair(pairs, hashed, key, value) ==
    {pair \in pairs : pair.hashed # hashed}
    \cup {[hashed |-> hashed, Key |-> key, Value |-> value]}

(***************************************************************************)
(* The evaluator (package evaluator).                                      *)
(***************************************************************************)
\* The record of what the evaluation did, kept beside the state it threads:
\* a statement entered by the loop of a Program or of a BlockStatement and
\* the value it yielded, the branch an if took, the result of an infix
\* operation, what a compound assignment and an increment or decrement left
\* bound, and the value of a call of a function literal.
Entered(statement, env, loop) ==
    [ev |-> "statement", node |-> statement, env |-> env, loop |-> loop]

Yielded(statement, env, loop, val) ==
    [ev |-> "yield", node |-> statement, env |-> env, loop |-> loop, val |-> val]

Branched(ie, env, condition, branch) ==
    [ev |-> "if", node |-> ie, env |-> env, val |-> condition, branch |-> branch]

Computed(inf, env, left, right, val) ==
    [ev |-> "infix", node |-> inf, env |-> env, left |-> left, right |-> right,
     val |-> val]

Assigned(inf, env, left, right, bound, val) ==
    [ev |-> "assign", node |-> inf, env |-> env, left |-> left, right |-> right,
     bound |-> bound, val |-> val]

Stepped(node, env, operand, val, bound, changed) ==
    [ev |-> "step", node |-> node, env |-> env, operand |-> operand, val |-> val,
     bound |-> bound, changed |-> changed]

\* What a read of name in environment e finds.
Bound(heap, e, name) == Get(heap, e, name).obj

Called(fn, env, val) == [ev |-> "call", fn |-> fn, env |-> env, val |-> val]

\* A call of the function fn ran in environment env, which extendFunctionEnv
\* made as frame; the environments were before when the call began and after
\* when the body had been evaluated.
Framed(fn, env, before, frame, after) ==
    [ev |-> "frame", fn |-> fn, env |-> env, before |-> before, frame |-> frame,
     after |-> after]

isTruthy(obj) ==
    IF obj = NULL THEN FALSE
    ELSE IF obj = FalseObj THEN FALSE
    ELSE IF obj = TrueObj THEN TRUE
    ELSE TRUE

unwrapReturnValue(obj) == IF obj.type = RETURNVALUEOBJ THEN obj.value ELSE obj

evalBangOperatorExpression(right) ==
    IF right = TrueObj THEN FalseObj
    ELSE IF right = FalseObj THEN TrueObj
    ELSE IF right = NULL THEN TrueObj
    ELSE FalseObj

evalMinusPrefixOperatorExpression(right) ==
    IF right.type = DOUBLEOBJ
    THEN IF NegativeZero(right.q, TRUE) THEN Unmodelled ELSE Double(-right.q, 0)
    ELSE Integer(-right.int)

evalIncrementOperatorExpression(right) ==
    IF right.type = DOUBLEOBJ
    THEN evalPlusOperatorDoubleExpression(right.q, 1 * DScale, right.precision)
    ELSE evalPlusOperatorIntegerExpression(right.int, 1)

evalDecrementOperatorExpression(right) ==
    IF right.type = DOUBLEOBJ
    THEN evalSubtractOperatorDoubleExpression(right.q, 1 * DScale, right.precision)
    ELSE evalSubtractOperatorIntegerExpression(right.int, 1)

evalIdentifier(node, env, st) ==
    LET g == Get(st.heap, env, node.Value)
    IN  IF g.ok
        THEN IF g.obj = Nil THEN Ret(NilDeref, st)
             ELSE Ret(Identifier(node.Value, Unwrapped(g.obj)), st)
        ELSE IF node.Value \in builtins
        THEN Ret(Identifier(node.Value, Builtin(node.Value)), st)
        ELSE Ret(newError("identifier not found: " \o node.Value), st)

\* A function literal that captures a copy of its environment.
evalFunctionLiteralCopy(fn, env, st) ==
    Ret(Function(st.next, fn.Parameters, fn.Body, Len(st.heap) + 1),
        [AllocEnv(st, st.heap[env]) EXCEPT !.next = @ + 1])

evalFunctionLiteral(fn, env, st) ==
    Ret(Function(st.next, fn.Parameters, fn.Body, env), [st EXCEPT !.next = @ + 1])

RECURSIVE BindParams(_, _, _, _, _)
\* The loop of extendFunctionEnv from parameter i on.
BindParams(heap, e, params, args, i) ==
    IF i > Len(params) THEN heap
    ELSE BindParams(Set(heap, e, params[i].Value, args[i]), e, params, args, i + 1)

\* extendFunctionEnv were it to bind the parameters in the captured
\* environment itself.
extendFunctionEnvShared(fn, args, st) ==
    IF Len(fn.parameters) > Len(args)
    THEN [env |-> fn.env, st |-> st, abort |-> Panic("runtime error: index out of range")]
    ELSE [env |-> fn.env, abort |-> Nil,
          st |-> [st EXCEPT !.heap = BindParams(@, fn.env, fn.parameters, args, 1)]]

\* args[paramIdx] panics for a parameter that has no argument.
extendFunctionEnv(fn, args, st) ==
    LET e == Len(st.heap) + 1
        st1 == AllocEnv(st, NewEnclosedEnvironment(fn.env))
    IN  IF Len(fn.parameters) > Len(args)
        THEN [env |-> e, st |-> st1, abort |-> Panic("runtime error: index out of range")]
        ELSE [env |-> e, abort |-> Nil,
              st |-> [st1 EXCEPT !.heap = BindParams(@, e, fn.parameters, args, 1)]]

\* The bounds check with the last element left out.
evalArrayIndexExpressionShort(array, index, st) ==
    LET idx == index.int
        max == array.len - 1
    IN  IF idx < 0 \/ idx >= max
        THEN newError("array index out of bounds[0, " \o Itoa(max) \o "]: " \o Itoa(idx))
        ELSE Elements(st, array)[idx + 1]

evalArrayIndexExpression(array, index, st) ==
    LET idx == index.int
        max == array.len - 1
    IN  IF idx < 0 \/ idx > max
        THEN newError("array index out of bounds[0, " \o Itoa(max) \o "]: " \o Itoa(idx))
        ELSE Elements(st, array)[idx + 1]

evalHashIndexExpression(hash, index) ==
    IF ~Hashable(index) THEN newError("unusable as hash key: " \o index.type)
    ELSE LET hit == {pair \in hash.pairs : pair.hashed = HashKey(index)}
         IN  IF hit = {} THEN NULL ELSE (CHOOSE pair \in hit : TRUE).Value

RECURSIVE Eval(_, _, _)
RECURSIVE evalProgramFrom(_, _, _, _, _)
RECURSIVE evalBlockFrom(_, _, _, _, _)
RECURSIVE evalExpressionsFrom(_, _, _, _, _)
RECURSIVE evalHashFrom(_, _, _, _, _)
RECURSIVE applyFunction(_, _, _)

\* The loop of evalProgram from statement i on; result is the last value.
evalProgramFrom(program, env, st, i, result) ==
    IF i > Len(program.Statements) THEN Ret(result, st)
    ELSE LET statement == program.Statements[i]
             r == Eval(statement, env, Log(st, Entered(statement, env, "Program")))
             st1 == Log(r.st, Yielded(statement, env, "Program", r.val))
         IN  IF IsAbort(r.val) THEN r
             ELSE IF r.val.type = RETURNVALUEOBJ THEN Ret(r.val.value, st1)
             ELSE IF r.val.type = IDENTIFIEROBJ THEN Ret(r.val.value, st1)
             ELSE IF r.val.type = ERROROBJ THEN Ret(r.val, st1)
             ELSE evalProgramFrom(program, env, st1, i + 1, r.val)

evalProgram(program, env, st) == evalProgramFrom(program, env, st, 1, Nil)

\* The loop of evalBlockStatement from statement i on.
evalBlockFrom(block, env, st, i, result) ==
    IF i > Len(block.Statements) THEN Ret(result, st)
    ELSE LET statement == block.Statements[i]
             r == Eval(statement, env, Log(st, Entered(statement, env, "BlockStatement")))
             st1 == Log(r.st, Yielded(statement, env, "BlockStatement", r.val))
         IN  IF IsAbort(r.val) THEN r
             ELSE IF r.val # Nil /\ r.val.type \in {RETURNVALUEOBJ, ERROROBJ}
             THEN Ret(r.val, st1)
             ELSE evalBlockFrom(block, env, st1, i + 1, r.val)

evalBlockStatement(block, env, st) == evalBlockFrom(block, env, st, 1, Nil)

\* evalLetStatement were it to bind the name before it looks for an Error.
evalLetStatementAnyway(stmt, env, st) ==
    LET r == Eval(stmt.Value, env, st)
    IN  IF IsAbort(r.val) THEN r
        ELSE IF r.val = Nil THEN Ret(NilDeref, r.st)
        ELSE LET val == Unwrapped(r.val)
                 st1 == [r.st EXCEPT !.heap = Set(@, env, stmt.Name.Value, val)]
             IN  IF isError(val) THEN Ret(val, st1) ELSE Ret(Nil, st1)

evalLetStatement(stmt, env, st) ==
    LET r == Eval(stmt.Value, env, st)
    IN  IF IsAbort(r.val) THEN r
        ELSE IF r.val = Nil THEN Ret(NilDeref, r.st)
        ELSE LET val == Unwrapped(r.val)
             IN  IF isError(val) THEN Ret(val, r.st)
                 ELSE Ret(Nil, [r.st EXCEPT !.heap = Set(@, env, stmt.Name.Value, val)])

\* The loop of evalExpressions from expression i on: the values in val, or
\* the panic in abort.
evalExpressionsFrom(exps, env, st, i, result) ==
    IF i > Len(exps) THEN [val |-> result, st |-> st, abort |-> Nil]
    ELSE LET r == Eval(exps[i], env, st)
         IN  IF IsAbort(r.val) THEN [val |-> <<>>, st |-> r.st, abort |-> r.val]
             ELSE IF isError(r.val) THEN [val |-> <<r.val>>, st |-> r.st, abort |-> Nil]
             ELSE evalExpressionsFrom(exps, env, r.st, i + 1, Append(result, r.val))

evalExpressions(exps, env, st) == evalExpressionsFrom(exps, env, st, 1, <<>>)

\* The first error of a list of values, Nil when it has none.
FirstError(objs) ==
    IF \E i \in 1..Len(objs) : isError(objs[i])
    THEN objs[CHOOSE i \in 1..Len(objs) :
                 isError(objs[i]) /\ \A j \in 1..(i - 1) : ~isError(objs[j])]
    ELSE Nil

applyFunction(fn, args, st) ==
    IF fn = Nil THEN Ret(NilDeref, st)
    ELSE IF fn.type = IDENTIFIEROBJ THEN applyFunction(fn.value, args, st)
    ELSE IF fn.type = FUNCTIONOBJ
    THEN LET extendedEnv == extendFunctionEnv(fn, args, st)
         IN  IF extendedEnv.abort # Nil THEN Ret(extendedEnv.abort, extendedEnv.st)
             ELSE LET r == Eval(fn.body, extendedEnv.env, extendedEnv.st)
                  IN  IF IsAbort(r.val) THEN r
                      ELSE Ret(unwrapReturnValue(r.val),
                               Log(Log(r.st, Framed(fn, extendedEnv.env, st.heap,
                                                    extendedEnv.st.heap[extendedEnv.env],
                                                    r.st.heap)),
                                   Called(fn, extendedEnv.env, unwrapReturnValue(r.val))))
    ELSE IF fn.type = BUILTINOBJ THEN CallBuiltin(fn.fn, args, st)
    ELSE Ret(newError("not a function: " \o fn.type), st)

\* evalFunctionCall were it to evaluate the arguments before the callee.
evalFunctionCallArgumentsFirst(fn, env, st) ==
    LET args == evalExpressions(fn.Arguments, env, st)
    IN  IF args.abort # Nil THEN Ret(args.abort, args.st)
        ELSE IF FirstError(args.val) # Nil THEN Ret(FirstError(args.val), args.st)
        ELSE LET function == Eval(fn.Function, env, args.st)
             IN  IF IsAbort(function.val) THEN function
                 ELSE IF isError(function.val) THEN function
                 ELSE applyFunction(function.val, args.val, function.st)

evalFunctionCall(fn, env, st) ==
    LET function == Eval(fn.Function, env, st)
    IN  IF IsAbort(function.val) THEN function
        ELSE IF isError(function.val) THEN function
        ELSE LET args == evalExpressions(fn.Arguments, env, function.st)
             IN  IF args.abort # Nil THEN Ret(args.abort, args.st)
                 ELSE IF FirstError(args.val) # Nil THEN Ret(FirstError(args.val), args.st)
                 ELSE applyFunction(function.val, args.val, args.st)

evalIfExpression(ie, env, st) ==
    LET condition == Eval(ie.Condition, env, st)
    IN  IF IsAbort(condition.val) THEN condition
        ELSE IF isError(condition.val) THEN condition
        ELSE IF isTruthy(condition.val)
        THEN Eval(ie.Consequence, env,
                  Log(condition.st, Branched(ie, env, condition.val, "consequence")))
        ELSE IF ie.Alternative # Nil
        THEN Eval(ie.Alternative, env,
                  Log(condition.st, Branched(ie, env, condition.val, "alternative")))
        ELSE Ret(NULL, Log(condition.st, Branched(ie, env, condition.val, "none")))

evalPrefixExpression(pref, env, st) ==
    LET right == Eval(pref.Right, env, st)
    IN  IF IsAbort(right.val) THEN right
        ELSE IF isError(right.val) THEN right
        ELSE IF right.val = Nil THEN Ret(NilDeref, right.st)
        ELSE
        LET isIdentifier == right.val.type = IDENTIFIEROBJ
            r == IF isIdentifier THEN right.val.value ELSE right.val
            identifier == IF isIdentifier THEN right.val.name ELSE ""
            unknown == newError("unknown operator: " \o pref.Operator \o r.type)
            numeric == isIdentifier /\ r.type \in {INTEGEROBJ, DOUBLEOBJ}
            result == IF ~numeric THEN unknown
                      ELSE IF pref.Operator = "++" THEN evalIncrementOperatorExpression(r)
                      ELSE evalDecrementOperatorExpression(r)
        IN  IF pref.Operator = "!" THEN Ret(evalBangOperatorExpression(r), right.st)
            ELSE IF pref.Operator = "-"
            THEN IF r.type \in {INTEGEROBJ, DOUBLEOBJ}
                 THEN Ret(evalMinusPrefixOperatorExpression(r), right.st)
                 ELSE Ret(unknown, right.st)
            ELSE IF pref.Operator \in {"++", "--"}
            THEN IF IsAbort(result) THEN Ret(result, right.st)
                 ELSE IF result.type = ERROROBJ
                 THEN Ret(result,
                          Log(right.st, Stepped(pref, env, right.val, result, Nil, FALSE)))
                 ELSE Ret(result,
                          Log([right.st EXCEPT !.heap = Set(@, env, identifier, result)],
                              Stepped(pref, env, right.val, result,
                                      Bound(Set(right.st.heap, env, identifier, result),
                                            env, identifier),
                                      Set(right.st.heap, env, identifier, result)
                                          # right.st.heap)))
            ELSE Ret(unknown, right.st)

modOps == <<"+=", "-=", "/=", "*=">>

\* A compound assignment that writes the right operand back.
evalInfixExpressionRight(inf, env, st) ==
    LET left == Eval(inf.Left, env, st)
    IN  IF IsAbort(left.val) THEN left
        ELSE IF isError(left.val) THEN left
        ELSE
        LET right == Eval(inf.Right, env, left.st)
        IN  IF IsAbort(right.val) THEN right
            ELSE IF isError(right.val) THEN right
            ELSE
            LET val == evalInfixExpressionByType(inf.Operator, left.val, right.val)
                st1 == Log(right.st, Computed(inf, env, left.val, right.val, val))
                written == Set(st1.heap, env, inf.Left.Value, Unwrapped(right.val))
            IN  IF IsAbort(val) THEN Ret(val, st1)
                ELSE IF InArray(inf.Operator, modOps)
                THEN IF val.type = ERROROBJ THEN Ret(val, st1)
                     ELSE IF inf.Left.kind = "Identifier"
                     THEN Ret(Nil, Log([st1 EXCEPT !.heap = written],
                                       Assigned(inf, env, left.val, right.val,
                                                Bound(written, env, inf.Left.Value), Nil)))
                     ELSE Ret(Nil, st1)
                ELSE Ret(val, st1)

\* An evaluation that leaves the right operand of &&, || and ?? alone when
\* the left one decides the value.
evalInfixExpressionShortCircuit(inf, env, st) ==
    LET left == Eval(inf.Left, env, st)
    IN  IF IsAbort(left.val) THEN left
        ELSE IF isError(left.val) THEN left
        ELSE IF \/ inf.Operator = "&&" /\ Unwrapped(left.val) = FalseObj
                \/ inf.Operator = "||" /\ Unwrapped(left.val) = TrueObj
                \/ inf.Operator = "??" /\ Unwrapped(left.val) # NULL
        THEN Ret(Unwrapped(left.val), left.st)
        ELSE
        LET right == Eval(inf.Right, env, left.st)
        IN  IF IsAbort(right.val) THEN right
            ELSE IF isError(right.val) THEN right
            ELSE
            LET val == evalInfixExpressionByType(inf.Operator, left.val, right.val)
                st1 == Log(right.st, Computed(inf, env, left.val, right.val, val))
            IN  IF IsAbort(val) THEN Ret(val, st1)
                ELSE IF InArray(inf.Operator, modOps)
                THEN IF val.type = ERROROBJ THEN Ret(val, st1)
                     ELSE IF inf.Left.kind = "Identifier"
                     THEN Ret(Nil, Log([st1 EXCEPT
                                          !.heap = Set(@, env, inf.Left.Value, val)],
                                       Assigned(inf, env, left.val, right.val,
                                                Bound(Set(st1.heap, env, inf.Left.Value, val),
                                                      env, inf.Left.Value),
                                                Nil)))
                     ELSE Ret(Nil, st1)
                ELSE Ret(val, st1)

evalInfixExpression(inf, env, st) ==
    LET left == Eval(inf.Left, env, st)
    IN  IF IsAbort(left.val) THEN left
        ELSE IF isError(left.val) THEN left
        ELSE
        LET right == Eval(inf.Right, env, left.st)
        IN  IF IsAbort(right.val) THEN right
            ELSE IF isError(right.val) THEN right
            ELSE
            LET val == evalInfixExpressionByType(inf.Operator, left.val, right.val)
                st1 == Log(right.st, Computed(inf, env, left.val, right.val, val))
            IN  IF IsAbort(val) THEN Ret(val, st1)
                ELSE IF InArray(inf.Operator, modOps)
                THEN IF val.type = ERROROBJ THEN Ret(val, st1)
                     ELSE IF inf.Left.kind = "Identifier"
                     THEN Ret(Nil, Log([st1 EXCEPT
                                          !.heap = Set(@, env, inf.Left.Value, val)],
                                       Assigned(inf, env, left.val, right.val,
                                                Bound(Set(st1.heap, env, inf.Left.Value, val),
                                                      env, inf.Left.Value),
                                                Nil)))
                     ELSE Ret(Nil, st1)
                ELSE Ret(val, st1)

\* A suffix operator that yields the new value, as the prefix one does.
evalSuffixExpressionNew(suf, env, st) ==
    LET left == Eval(suf.Left, env, st)
    IN  IF IsAbort(left.val) THEN left
        ELSE IF isError(left.val) THEN left
        ELSE IF left.val = Nil THEN Ret(NilDeref, left.st)
        ELSE
        LET isIdentifier == left.val.type = IDENTIFIEROBJ
            l == IF isIdentifier THEN left.val.value ELSE left.val
            identifier == IF isIdentifier THEN left.val.name ELSE ""
            operator == suf.Operator
            numeric == isIdentifier /\ l.type \in {INTEGEROBJ, DOUBLEOBJ}
            result == IF ~numeric THEN newError("unknown operator: " \o l.type \o operator)
                      ELSE IF operator = "++" THEN evalIncrementOperatorExpression(l)
                      ELSE evalDecrementOperatorExpression(l)
            written == Set(left.st.heap, env, identifier, result)
        IN  IF operator \in {"++", "--"}
            THEN IF IsAbort(result) THEN Ret(result, left.st)
                 ELSE IF result.type = ERROROBJ
                 THEN Ret(result,
                          Log(left.st, Stepped(suf, env, left.val, result, Nil, FALSE)))
                 ELSE Ret(result,
                          Log([left.st EXCEPT !.heap = written],
                              Stepped(suf, env, left.val, result,
                                      Bound(written, env, identifier),
                                      written # left.st.heap)))
            ELSE Ret(newError("unknown operator: " \o l.type \o " " \o operator
                              \o " " \o l.type), left.st)

evalSuffixExpression(suf, env, st) ==
    LET left == Eval(suf.Left, env, st)
    IN  IF IsAbort(left.val) THEN left
        ELSE IF isError(left.val) THEN left
        ELSE IF left.val = Nil THEN Ret(NilDeref, left.st)
        ELSE
        LET isIdentifier == left.val.type = IDENTIFIEROBJ
            l == IF isIdentifier THEN left.val.value ELSE left.val
            identifier == IF isIdentifier THEN left.val.name ELSE ""
            operator == suf.Operator
            numeric == isIdentifier /\ l.type \in {INTEGEROBJ, DOUBLEOBJ}
            result == IF ~numeric THEN newError("unknown operator: " \o l.type \o operator)
                      ELSE IF operator = "++" THEN evalIncrementOperatorExpression(l)
                      ELSE evalDecrementOperatorExpression(l)
        IN  IF operator \in {"++", "--"}
            THEN IF IsAbort(result) THEN Ret(result, left.st)
                 ELSE IF result.type = ERROROBJ
                 THEN Ret(result,
                          Log(left.st, Stepped(suf, env, left.val, result, Nil, FALSE)))
                 ELSE Ret(l, Log([left.st EXCEPT !.heap = Set(@, env, identifier, result)],
                                 Stepped(suf, env, left.val, l,
                                         Bound(Set(left.st.heap, env, identifier, result),
                                               env, identifier),
                                         Set(left.st.heap, env, identifier, result)
                                             # left.st.heap)))
            ELSE Ret(newError("unknown operator: " \o l.type \o " " \o operator
                              \o " " \o l.type), left.st)

evalArrayLiteral(al, env, st) ==
    LET elements == evalExpressions(al.Elements, env, st)
    IN  IF elements.abort # Nil THEN Ret(elements.abort, elements.st)
        ELSE IF FirstError(elements.val) # Nil
        THEN Ret(FirstError(elements.val), elements.st)
        ELSE NewArray(elements.val, elements.st)

\* The loop of evalHashLiteral over the pairs todo, in that order.
evalHashFrom(node, env, st, todo, pairs) ==
    IF todo = <<>>
    THEN Ret(Hash(st.next, pairs), [st EXCEPT !.next = @ + 1])
    ELSE LET k == Eval(node.Pairs[Head(todo)].Key, env, st)
         IN  IF IsAbort(k.val) THEN k
             ELSE IF isError(k.val) THEN k
             ELSE IF k.val = Nil THEN Ret(NilDeref, k.st)
             ELSE
             LET key == Unwrapped(k.val)
             IN  IF ~Hashable(key)
                 THEN Ret(newError("unusable as hash key: " \o key.type), k.st)
                 ELSE LET value == Eval(node.Pairs[Head(todo)].Value, env, k.st)
                      IN  IF IsAbort(value.val) THEN value
                          ELSE IF isError(value.val) THEN value
                          ELSE evalHashFrom(node, env, value.st, Tail(todo),
                                            PutPair(pairs, HashKey(key), key, value.val))

\* range node.Pairs: the order of this iteration is the next of st.order, cut
\* down to the pairs the literal has.  The orders of a map of more than
\* MaxPairs entries are not represented.
evalHashLiteral(node, env, st) ==
    IF st.order = <<>> \/ Len(node.Pairs) > MaxPairs THEN Ret(Unmodelled, st)
    ELSE evalHashFrom(node, env, [st EXCEPT !.order = Tail(@)],
                      SelectSeq(Head(st.order), LAMBDA i : i <= Len(node.Pairs)), {})

evalIndexExpression(ie, env, st) ==
    LET left == Eval(ie.Left, env, st)
    IN  IF IsAbort(left.val) THEN left
        ELSE IF isError(left.val) THEN left
        ELSE
        LET index == Eval(ie.Index, env, left.st)
        IN  IF IsAbort(index.val) THEN index
            ELSE IF isError(index.val) THEN index
            ELSE IF left.val = Nil \/ index.val = Nil THEN Ret(NilDeref, index.st)
            ELSE
            LET l == Unwrapped(left.val)
                idx == Unwrapped(index.val)
            IN  IF l.type = ARRAYOBJ /\ idx.type = INTEGEROBJ
                THEN Ret(evalArrayIndexExpression(l, idx, index.st), index.st)
                ELSE IF l.type = HASHOBJ
                THEN Ret(evalHashIndexExpression(l, idx), index.st)
                ELSE Ret(newError("index operator not supported: " \o l.type), index.st)

evalReturnStatement(rs, env, st) ==
    LET val == Eval(rs.Value, env, st)
    IN  IF IsAbort(val.val) THEN val
        ELSE IF isError(val.val) THEN val
        ELSE Ret(ReturnValue(val.st.next, val.val), [val.st EXCEPT !.next = @ + 1])

Eval(node, env, st) ==
    CASE node.kind = "Program" -> evalProgram(node, env, st)
        [] node.kind = "BlockStatement" -> evalBlockStatement(node, env, st)
        [] node.kind = "ExpressionStatement" -> Eval(node.Expression, env, st)
        [] node.kind = "LetStatement" -> evalLetStatement(node, env, st)
        [] node.kind = "FunctionLiteral" -> evalFunctionLiteral(node, env, st)
        [] node.kind = "CallExpression" -> evalFunctionCall(node, env, st)
        [] node.kind = "Identifier" -> evalIdentifier(node, env, st)
        [] node.kind = "IfExpression" -> evalIfExpression(node, env, st)
        [] node.kind = "PrefixExpression" -> evalPrefixExpression(node, env, st)
        [] node.kind = "InfixExpression" -> evalInfixExpression(node, env, st)
        [] node.kind = "SuffixExpression" -> evalSuffixExpression(node, env, st)
        [] node.kind = "ArrayLiteral" -> evalArrayLiteral(node, env, st)
        [] node.kind = "HashLiteral" -> evalHashLiteral(node, env, st)
        [] node.kind = "IndexExpression" -> evalIndexExpression(node, env, st)
        [] node.kind = "ReturnStatement" -> evalReturnStatement(node, env, st)
        [] node.kind = "IntegerLiteral" -> Ret(Integer(node.Value), st)
        [] node.kind = "DoubleLiteral" -> Ret(Double(node.Value, node.Precision), st)
        [] node.kind = "StringLiteral" -> Ret(String(node.Value), st)
        [] node.kind = "Boolean" -> Ret(nativeBoolToBooleanObject(node.Value), st)
        [] node.kind = "NullLiteral" -> Ret(NULL, st)
        [] OTHER -> Ret(Nil, st)

(***************************************************************************)
(* The lexer (package lexer).                                              *)
(***************************************************************************)
\* The byte 0.  A TLA+ string cannot hold it: "@" stands for it, in the input
\* and in ch, and no input of the model means the character '@' by it.
NUL == "@"

ByteAt(s, i) == SubSeq(s, i + 1, i + 1)

Slice(s, a, b) == SubSeq(s, a + 1, b)

RECURSIVE ReplaceAll(_, _, _)
\* strings.ReplaceAll and bytes.ReplaceAll, for a non-empty old.
ReplaceAll(s, old, new) ==
    IF Len(s) < Len(old) THEN s
    ELSE IF SubSeq(s, 1, Len(old)) = old
    THEN new \o ReplaceAll(SubSeq(s, Len(old) + 1, Len(s)), old, new)
    ELSE SubSeq(s, 1, 1) \o ReplaceAll(SubSeq(s, 2, Len(s)), old, new)

normalizeNewLine(lines) == ReplaceAll(ReplaceAll(lines, "\r\n", "\n"), "\r", "\n")

readChar(l) ==
    [l EXCEPT !.ch = IF l.readPosition >= Len(l.input) THEN NUL
                     ELSE ByteAt(l.input, l.readPosition),
              !.position = l.readPosition,
              !.readPosition = l.readPosition + 1]

peekChar(l) ==
    IF l.readPosition >= Len(l.input) THEN NUL ELSE ByteAt(l.input, l.readPosition)

NewLexer(input) ==
    readChar([input |-> normalizeNewLine(input), position |-> 0, readPosition |-> 0,
              ch |-> NUL])

isLetter(ch) ==
    ch \in {"a", "b", "c", "d", "e", "f", "g", "h", "i", "j", "k", "l", "m", "n", "o",
            "p", "q", "r", "s", "t", "u", "v", "w", "x", "y", "z", "A", "B", "C", "D",
            "E", "F", "G", "H", "I", "J", "K", "L", "M", "N", "O", "P", "Q", "R", "S",
            "T", "U", "V", "W", "X", "Y", "Z", "_"}

isDigit(ch) == ch \in {"0", "1", "2", "3", "4", "5", "6", "7", "8", "9"}

isEndOfLine(ch) == ch = "\n" \/ ch = "\r" \/ ch = NUL

RECURSIVE skipWhitespace(_)
skipWhitespace(l) ==
    IF l.ch = " " \/ l.ch = "\t" \/ l.ch = "\n" \/ l.ch = "\r"
    THEN skipWhitespace(readChar(l)) ELSE l

RECURSIVE ReadWhile(_, _)
\* for cond(l.ch) { l.readChar() } of readIdentifier (letters), readNumber
\* (digits) and readComment (rest of the line).
ReadWhile(l, class) ==
    IF \/ class = "letter" /\ isLetter(l.ch)
       \/ class = "digit" /\ isDigit(l.ch)
       \/ class = "line" /\ ~isEndOfLine(l.ch)
    THEN ReadWhile(readChar(l), class) ELSE l

\* The three return the literal read and the lexer after it.
readIdentifier(l) ==
    With(ReadWhile(l, "letter"), LAMBDA end :
        [literal |-> Slice(l.input, l.position, end.position), l |-> end])

readNumber(l) ==
    With(ReadWhile(l, "digit"), LAMBDA end :
        [literal |-> Slice(l.input, l.position, end.position), l |-> end])

readComment(l) ==
    With(ReadWhile(l, "line"), LAMBDA end :
        [literal |-> Slice(l.input, l.position, end.position), l |-> end])

RECURSIVE ReadToQuote(_)
\* The loop of readString: to the next quote that no backslash precedes, or
\* to a byte 0.
ReadToQuote(l) ==
    With(readChar(l), LAMBDA read :
        IF (read.ch = "\"" /\ ByteAt(read.input, read.position - 1) # "\\") \/ read.ch = NUL
        THEN read ELSE ReadToQuote(read))

readString(l) ==
    With(ReadToQuote(l), LAMBDA end :
        LET value == Slice(l.input, l.position + 1, end.position)
        IN  [literal |-> ReplaceAll(ReplaceAll(ReplaceAll(ReplaceAll(value,
                            "\\\"", "\""), "\\n", "\n"), "\\t", "\t"), "\\r", "\r"),
             l |-> end])

newToken(tokenType, ch) == Token(tokenType, ch)

DigitValue(ch) == CHOOSE d \in 0..9 : Digit(d) = ch

RECURSIVE TrimZeros(_)
\* The digits without the zeros that lead them.
TrimZeros(digits) ==
    IF digits # "" /\ SubSeq(digits, 1, 1) = "0"
    THEN TrimZeros(SubSeq(digits, 2, Len(digits))) ELSE digits

RECURSIVE Above(_, _)
\* Of two runs of digits of one length: the first is the greater number.
Above(a, b) ==
    IF a = "" THEN FALSE
    ELSE IF DigitValue(SubSeq(a, 1, 1)) # DigitValue(SubSeq(b, 1, 1))
    THEN DigitValue(SubSeq(a, 1, 1)) > DigitValue(SubSeq(b, 1, 1))
    ELSE Above(SubSeq(a, 2, Len(a)), SubSeq(b, 2, Len(b)))

\* The greatest int64.
MaxInt64 == "9223372036854775807"

\* strconv.ParseInt(digits, 10, 64) returns an error: for an empty string
\* and for a number above the greatest int64.
ParseIntFails(digits) ==
    \/ digits = ""
    \/ Len(TrimZeros(digits)) > Len(MaxInt64)
    \/ Len(TrimZeros(digits)) = Len(MaxInt64) /\ Above(TrimZeros(digits), MaxInt64)

\* OneOrTwo without the readChar that follows the switch of NextToken.
OneOrTwoLeftInPlace(l, second) ==
    IF peekChar(l) \in DOMAIN second
    THEN [tok |-> Token(second[peekChar(l)], l.ch \o peekChar(l)), l |-> readChar(l)]
    ELSE [tok |-> newToken(l.ch, l.ch), l |-> l]

\* An operator of one or two characters: the token and the lexer after it.
\* second maps the characters that continue l.ch to the type of the pair; the
\* type of a token of one character is that character.
OneOrTwo(l, second) ==
    IF peekChar(l) \in DOMAIN second
    THEN [tok |-> Token(second[peekChar(l)], l.ch \o peekChar(l)),
          l |-> readChar(readChar(l))]
    ELSE [tok |-> newToken(l.ch, l.ch), l |-> readChar(l)]

RECURSIVE NextToken(_)
\* NextToken: the token returned and the lexer after the call.
NextToken(lexer0) ==
    With(skipWhitespace(lexer0), LAMBDA l :
        LET ch == l.ch
        IN  IF ch = "=" THEN OneOrTwo(l, [x \in {"="} |-> "=="])
        ELSE IF ch \in {";", ":", "(", ")", ",", ".", "^", "%", "{", "}", "[", "]"}
        THEN [tok |-> newToken(ch, ch), l |-> readChar(l)]
        ELSE IF ch = "+" THEN OneOrTwo(l, [x \in {"=", "+"} |-> IF x = "=" THEN "+=" ELSE "++"])
        ELSE IF ch = "-" THEN OneOrTwo(l, [x \in {"=", "-"} |-> IF x = "=" THEN "-=" ELSE "--"])
        ELSE IF ch = "!" THEN OneOrTwo(l, [x \in {"="} |-> "!="])
        ELSE IF ch = "/" THEN
            IF peekChar(l) = "/"
            THEN With(readComment(l), LAMBDA c :
                     [tok |-> Token(COMMENT, c.literal), l |-> readChar(c.l)])
            ELSE OneOrTwo(l, [x \in {"="} |-> "/="])
        ELSE IF ch = "*" THEN OneOrTwo(l, [x \in {"="} |-> "*="])
        ELSE IF ch = "<" THEN OneOrTwo(l, [x \in {"="} |-> "<="])
        ELSE IF ch = ">" THEN OneOrTwo(l, [x \in {"="} |-> ">="])
        ELSE IF ch = NUL THEN [tok |-> Token(EOF, ""), l |-> readChar(l)]
        ELSE IF ch = "\"" THEN
            With(readString(l), LAMBDA s :
                [tok |-> Token(STRING_, s.literal), l |-> readChar(s.l)])
        ELSE IF isLetter(ch) THEN
            With(readIdentifier(l), LAMBDA id :
                [tok |-> Token(LookupIdent(id.literal), id.literal), l |-> id.l])
        ELSE IF isDigit(ch) THEN
            With(readNumber(l), LAMBDA whole :
                IF whole.l.ch = "."
                THEN With(readNumber(readChar(whole.l)), LAMBDA fraction :
                         IF ~ParseIntFails(fraction.literal)
                         THEN [tok |-> Token(DOUBLE, Slice(l.input, l.position,
                                                           fraction.l.position)),
                               l |-> fraction.l]
                         ELSE With(NextToken(fraction.l), LAMBDA rest :
                                  [tok |-> Token(ILLEGAL, whole.literal \o "."
                                                          \o rest.tok.Literal),
                                   l |-> rest.l]))
                ELSE [tok |-> Token(INT, whole.literal), l |-> whole.l])
        ELSE [tok |-> newToken(ILLEGAL, ch), l |-> readChar(l)])

(***************************************************************************)
(* The parser (package parser).  A Parser is the record of its lexer, its  *)
(* two tokens and its errors; panic holds the message of a Go panic, and   *)
(* unmodelled is set by a literal whose value the model cannot hold.  A    *)
(* parse function yields the node it returns (Nil for nil) and the parser  *)
(* after it.  A nil slice and an empty one are both <<>>.                  *)
(***************************************************************************)
LOWEST == 1
INPLACE == 2
LOGICALOR == 3
LOGICALAND == 4
EQUALS == 5
LESSGREATER == 6
SUM == 7
PRODUCT == 8
POWER == 9
PREFIX == 10
PERIOD == 11
CALL == 12
INDEX == 13

precedences ==
    [t \in {"+=", "-=", "/=", "*=", "||", "&&", "==", "!=", "<", ">", "<=", ">=", "+",
            "-", "/", "*", "%", "^", ".", "(", "["} |->
        IF t \in {"+=", "-=", "/=", "*="} THEN INPLACE
        ELSE IF t = "||" THEN LOGICALOR
        ELSE IF t = "&&" THEN LOGICALAND
        ELSE IF t \in {"==", "!="} THEN EQUALS
        ELSE IF t \in {"<", ">", "<=", ">="} THEN LESSGREATER
        ELSE IF t \in {"+", "-"} THEN SUM
        ELSE IF t \in {"/", "*", "%"} THEN PRODUCT
        ELSE IF t = "^" THEN POWER
        ELSE IF t = "." THEN PERIOD
        ELSE IF t = "(" THEN CALL
        ELSE INDEX]

\* The token types NewParser registers a prefix and an infix function for.
prefixParseFns ==
    {IDENT, INT, DOUBLE, STRING_, COMMENT, "[", "{", "!", "-", "++", "--", TRUE_, FALSE_, "(",
     IF_, FUNCTION}

infixParseFns ==
    {"+", "-", "/", "*", "^", ".", "%", "+=", "-=", "/=", "*=", "==", "!=", "&&", "||",
     "<=", ">=", "<", ">", "(", "["}

R(node, p) == [node |-> node, p |-> p]

nextToken(p) ==
    With(NextToken(p.l), LAMBDA n :
        [p EXCEPT !.curToken = p.peekToken, !.peekToken = n.tok, !.l = n.l])

NewParser(l) ==
    nextToken(nextToken([l |-> l, curToken |-> Token("", ""), peekToken |-> Token("", ""),
                         errors |-> <<>>, panic |-> "", unmodelled |-> FALSE]))

curTokenIs(p, t) == p.curToken.Type = t

peekTokenIs(p, t) == p.peekToken.Type = t

Err(p, msg) == [p EXCEPT !.errors = Append(@, msg)]

peekError(p, t) ==
    Err(p, "expected next token to be " \o t \o ", got " \o p.peekToken.Type \o " instead")

\* expectPeek: its result and the parser after it.
expectPeek(p, t) ==
    IF peekTokenIs(p, t) THEN [ok |-> TRUE, p |-> nextToken(p)]
    ELSE [ok |-> FALSE, p |-> peekError(p, t)]

curPrecedence(p) ==
    IF p.curToken.Type \in DOMAIN precedences THEN precedences[p.curToken.Type] ELSE LOWEST

peekPrecedence(p) ==
    IF p.peekToken.Type \in DOMAIN precedences THEN precedences[p.peekToken.Type] ELSE LOWEST

noPrefixParseFnError(p, t) == Err(p, "no prefix parse function for " \o t \o " found")

Panicked(r) == r.p.panic # ""

\* The nil *ast.LetStatement that parseStatement returns inside a non-nil
\* ast.Statement.
NilLetStatement == [kind |-> "LetStatement", isnil |-> TRUE]

parseSuffixExpression(p, left) == R(SuffixExpression(p.curToken.Literal, left), p)

parseIdentifier(p) ==
    LET identifier == Ident(p.curToken.Literal)
    IN  IF p.peekToken.Type \in {"++", "--"}
        THEN parseSuffixExpression(nextToken(p), identifier)
        ELSE R(identifier, p)


RECURSIVE Atoi(_)
\* The number a string of digits denotes.
Atoi(s) ==
    IF s = "" THEN 0
    ELSE 10 * Atoi(SubSeq(s, 1, Len(s) - 1)) + DigitValue(SubSeq(s, Len(s), Len(s)))

\* strconv.ParseInt of the literal of an INT token (digits only) fails past
\* the int64 range; the model holds the literals of at most MaxDigits digits.
parseIntegerLiteral(p) ==
    IF Len(p.curToken.Literal) > MaxDigits
    THEN R(IntegerLiteral(0), [p EXCEPT !.unmodelled = TRUE])
    ELSE R(IntegerLiteral(Atoi(p.curToken.Literal)), p)

\* The parts of the literal of a DOUBLE token around its '.'.
Whole(literal) ==
    SubSeq(literal, 1, (CHOOSE i \in 1..Len(literal) : SubSeq(literal, i, i) = ".") - 1)

Fraction(literal) ==
    SubSeq(literal, (CHOOSE i \in 1..Len(literal) : SubSeq(literal, i, i) = ".") + 1,
           Len(literal))

\* strconv.ParseFloat and utils.Precision of the literal of a DOUBLE token:
\* the model holds the doubles that are a whole number of quarters, with a
\* whole part of fewer than MaxDigits digits (the count of quarters takes
\* one digit more).
parseDoubleLiteral(p) ==
    LET literal == p.curToken.Literal
        precision == Precision(literal)
        scaled == Atoi(Fraction(literal)) * DScale
    IN  IF Len(Whole(literal)) + 1 > MaxDigits \/ precision > 2 \/ scaled % (10 ^ precision) # 0
        THEN R(DoubleLiteral(0, precision), [p EXCEPT !.unmodelled = TRUE])
        ELSE R(DoubleLiteral(Atoi(Whole(literal)) * DScale + scaled \div (10 ^ precision),
                             precision), p)

parseStringLiteral(p) ==
    R([StringLiteral(p.curToken.Literal) EXCEPT !.Token = p.curToken], p)

parseCommentLiteral(p) ==
    R([CommentLiteral(p.curToken.Literal) EXCEPT !.Token = p.curToken], p)

parseBoolean(p) == R([Boolean(curTokenIs(p, TRUE_)) EXCEPT !.Token = p.curToken], p)

\* hash.Pairs[key] = value: the keys are pointers, so only a nil key is met
\* twice.
PutNode(pairs, key, value) ==
    IF key = Nil /\ \E i \in 1..Len(pairs) : pairs[i].Key = Nil
    THEN [i \in 1..Len(pairs) |->
            IF pairs[i].Key = Nil THEN [Key |-> key, Value |-> value] ELSE pairs[i]]
    ELSE Append(pairs, [Key |-> key, Value |-> value])

RECURSIVE parseExpression(_, _)
RECURSIVE InfixLoop(_, _, _)
RECURSIVE ListLoop(_, _)
RECURSIVE HashLoop(_, _)
RECURSIVE StatementsLoop(_, _, _)
RECURSIVE ParametersLoop(_, _)
RECURSIVE parseStatement(_)

\* The loop of parseExpressionList after the first expression.
ListLoop(list, p) ==
    IF peekTokenIs(p, ",")
    THEN With(parseExpression(nextToken(nextToken(p)), LOWEST), LAMBDA r :
             IF Panicked(r) THEN r ELSE ListLoop(Append(list, r.node), r.p))
    ELSE R(list, p)

parseExpressionList(p, end) ==
    IF peekTokenIs(p, end) THEN R(<<>>, nextToken(p))
    ELSE With(parseExpression(nextToken(p), LOWEST), LAMBDA first :
             IF Panicked(first) THEN first
             ELSE With(ListLoop(<<first.node>>, first.p), LAMBDA list :
                      IF Panicked(list) THEN list
                      ELSE With(expectPeek(list.p, end), LAMBDA e :
                               IF ~e.ok THEN R(<<>>, e.p) ELSE R(list.node, e.p))))

parseArrayLiteral(p) ==
    With(parseExpressionList(p, "]"), LAMBDA elements :
        IF Panicked(elements) THEN elements ELSE R(ArrayLiteral(elements.node), elements.p))

\* The loop of parseHashLiteral: ok is FALSE when it returned nil.
HashLoop(pairs, p) ==
    IF peekTokenIs(p, "}") THEN [node |-> pairs, p |-> p, ok |-> TRUE]
    ELSE With(parseExpression(nextToken(p), LOWEST), LAMBDA key :
             IF Panicked(key) THEN [node |-> pairs, p |-> key.p, ok |-> FALSE]
             ELSE
             With(expectPeek(key.p, ":"), LAMBDA colon :
                 IF ~colon.ok THEN [node |-> pairs, p |-> colon.p, ok |-> FALSE]
                 ELSE
                 With(parseExpression(nextToken(colon.p), LOWEST), LAMBDA value :
                     LET put == PutNode(pairs, key.node, value.node)
                     IN  IF Panicked(value)
                         THEN [node |-> pairs, p |-> value.p, ok |-> FALSE]
                         ELSE IF peekTokenIs(value.p, "}") THEN HashLoop(put, value.p)
                         ELSE With(expectPeek(value.p, ","), LAMBDA comma :
                                  IF ~comma.ok
                                  THEN [node |-> put, p |-> comma.p, ok |-> FALSE]
                                  ELSE HashLoop(put, comma.p)))))

parseHashLiteral(p) ==
    With(HashLoop(<<>>, p), LAMBDA pairs :
        IF ~pairs.ok THEN R(Nil, pairs.p)
        ELSE With(expectPeek(pairs.p, "}"), LAMBDA brace :
                 IF ~brace.ok THEN R(Nil, brace.p)
                 ELSE R(HashLiteral(pairs.node), brace.p)))

parseIndexExpression(p, left) ==
    With(parseExpression(nextToken(p), LOWEST), LAMBDA index :
        IF Panicked(index) THEN index
        ELSE With(expectPeek(index.p, "]"), LAMBDA bracket :
                 IF ~bracket.ok THEN R(Nil, bracket.p)
                 ELSE R(IndexExpression(left, index.node), bracket.p)))

parsePrefixExpression(p) ==
    With(parseExpression(nextToken(p), PREFIX), LAMBDA right :
        IF Panicked(right) THEN right
        ELSE R(PrefixExpression(p.curToken.Literal, right.node), right.p))

\* The type name parseInfixExpression gives the left operand in its message.
LeftType(left) ==
    IF left = Nil THEN ILLEGAL
    ELSE IF left.kind = "IntegerLiteral" THEN INT
    ELSE IF left.kind = "DoubleLiteral" THEN DOUBLE
    ELSE IF left.kind = "StringLiteral" THEN STRING_
    ELSE IF left.kind = "Boolean" THEN "BOOLEAN"
    ELSE ILLEGAL

parseInfixExpression(p, left) ==
    IF /\ InArray(p.curToken.Literal, modOps)
       /\ (left = Nil \/ left.kind # "Identifier")
    THEN R(Nil, Err(p, "the infix operator " \o p.curToken.Literal \o " requires " \o IDENT
                       \o " on the left, " \o LeftType(left) \o " found"))
    ELSE With(parseExpression(nextToken(p), curPrecedence(p)), LAMBDA right :
             IF Panicked(right) THEN right
             ELSE R(InfixExpression(left, p.curToken.Literal, right.node), right.p))

parseCallExpression(p, function) ==
    With(parseExpressionList(p, ")"), LAMBDA arguments :
        IF Panicked(arguments) THEN arguments
        ELSE R(CallExpression(function, arguments.node), arguments.p))

parseGroupedExpression(p) ==
    With(parseExpression(nextToken(p), LOWEST), LAMBDA exp :
        IF Panicked(exp) THEN exp
        ELSE With(expectPeek(exp.p, ")"), LAMBDA paren :
                 IF ~paren.ok THEN R(Nil, paren.p) ELSE R(exp.node, paren.p)))

\* The loop of parseBlockStatement (stop at "}" too) and of ParseProgram.
StatementsLoop(statements, p, block) ==
    IF (block /\ curTokenIs(p, "}")) \/ curTokenIs(p, EOF) THEN R(statements, p)
    ELSE With(parseStatement(p), LAMBDA stmt :
             IF Panicked(stmt) THEN stmt
             ELSE StatementsLoop(IF stmt.node # Nil THEN Append(statements, stmt.node)
                                 ELSE statements,
                                 nextToken(stmt.p), block))

parseBlockStatement(p) ==
    With(StatementsLoop(<<>>, nextToken(p), TRUE), LAMBDA block :
        IF Panicked(block) THEN block ELSE R(BlockStatement(block.node), block.p))

parseIfExpression(p) ==
    With(expectPeek(p, "("), LAMBDA lparen :
        IF ~lparen.ok THEN R(Nil, lparen.p)
        ELSE
        With(parseExpression(nextToken(lparen.p), LOWEST), LAMBDA condition :
            IF Panicked(condition) THEN condition
            ELSE
            With(expectPeek(condition.p, ")"), LAMBDA rparen :
                IF ~rparen.ok THEN R(Nil, rparen.p)
                ELSE
                With(expectPeek(rparen.p, "{"), LAMBDA lbrace :
                    IF ~lbrace.ok THEN R(Nil, lbrace.p)
                    ELSE
                    With(parseBlockStatement(lbrace.p), LAMBDA consequence :
                        IF Panicked(consequence) THEN consequence
                        ELSE IF ~peekTokenIs(consequence.p, ELSE_)
                        THEN R(IfExpression(condition.node, consequence.node, Nil),
                               consequence.p)
                        ELSE
                        With(expectPeek(nextToken(consequence.p), "{"), LAMBDA brace :
                            IF ~brace.ok THEN R(Nil, brace.p)
                            ELSE
                            With(parseBlockStatement(brace.p), LAMBDA alternative :
                                IF Panicked(alternative) THEN alternative
                                ELSE R(IfExpression(condition.node, consequence.node,
                                                    alternative.node), alternative.p))))))))

\* parseIdentifier().(*ast.Identifier): the assertion panics on the
\* SuffixExpression parseIdentifier returns before ++ and --.
AssertIdentifier(r) ==
    IF r.node.kind = "Identifier" THEN r
    ELSE R(Nil, [r.p EXCEPT !.panic = "interface conversion: ast.Expression is "
                                      \o "*ast.SuffixExpression, not *ast.Identifier"])

\* The loop of parseFunctionParameters after the first parameter.
ParametersLoop(identifiers, p) ==
    IF peekTokenIs(p, ",")
    THEN With(AssertIdentifier(parseIdentifier(nextToken(nextToken(p)))), LAMBDA r :
             IF Panicked(r) THEN r ELSE ParametersLoop(Append(identifiers, r.node), r.p))
    ELSE R(identifiers, p)

parseFunctionParameters(p) ==
    IF peekTokenIs(p, ")") THEN R(<<>>, nextToken(p))
    ELSE With(AssertIdentifier(parseIdentifier(nextToken(p))), LAMBDA first :
             IF Panicked(first) THEN first
             ELSE With(ParametersLoop(<<first.node>>, first.p), LAMBDA identifiers :
                      IF Panicked(identifiers) THEN identifiers
                      ELSE With(expectPeek(identifiers.p, ")"), LAMBDA paren :
                               IF ~paren.ok THEN R(<<>>, paren.p)
                               ELSE R(identifiers.node, paren.p))))

parseFunctionLiteral(p) ==
    With(expectPeek(p, "("), LAMBDA lparen :
        IF ~lparen.ok THEN R(Nil, lparen.p)
        ELSE
        With(parseFunctionParameters(lparen.p), LAMBDA parameters :
            IF Panicked(parameters) THEN parameters
            ELSE
            With(expectPeek(parameters.p, "{"), LAMBDA lbrace :
                IF ~lbrace.ok THEN R(Nil, lbrace.p)
                ELSE With(parseBlockStatement(lbrace.p), LAMBDA body :
                         IF Panicked(body) THEN body
                         ELSE R(FunctionLiteral(parameters.node, body.node), body.p)))))

\* prefix(): the function registered for the type of the current token.
Prefix(p) ==
    LET t == p.curToken.Type
    IN  IF t = IDENT THEN parseIdentifier(p)
        ELSE IF t = INT THEN parseIntegerLiteral(p)
        ELSE IF t = DOUBLE THEN parseDoubleLiteral(p)
        ELSE IF t = STRING_ THEN parseStringLiteral(p)
        ELSE IF t = COMMENT THEN parseCommentLiteral(p)
        ELSE IF t = "[" THEN parseArrayLiteral(p)
        ELSE IF t = "{" THEN parseHashLiteral(p)
        ELSE IF t \in {"!", "-", "++", "--"} THEN parsePrefixExpression(p)
        ELSE IF t \in {TRUE_, FALSE_} THEN parseBoolean(p)
        ELSE IF t = "(" THEN parseGroupedExpression(p)
        ELSE IF t = IF_ THEN parseIfExpression(p)
        ELSE parseFunctionLiteral(p)

\* infix(leftExp): the function registered for the type of the current token.
InfixFn(p, left) ==
    IF curTokenIs(p, "(") THEN parseCallExpression(p, left)
    ELSE IF curTokenIs(p, "[") THEN parseIndexExpression(p, left)
    ELSE parseInfixExpression(p, left)

\* The loop of parseExpression.
InfixLoop(leftExp, p, precedence) ==
    IF ~peekTokenIs(p, ";") /\ precedence < peekPrecedence(p)
    THEN IF p.peekToken.Type \notin infixParseFns THEN R(leftExp, p)
         ELSE With(InfixFn(nextToken(p), leftExp), LAMBDA r :
                  IF Panicked(r) THEN r ELSE InfixLoop(r.node, r.p, precedence))
    ELSE R(leftExp, p)

parseExpression(p, precedence) ==
    IF p.curToken.Type \notin prefixParseFns
    THEN R(Nil, noPrefixParseFnError(p, p.curToken.Type))
    ELSE With(Prefix(p), LAMBDA leftExp :
             IF Panicked(leftExp) THEN leftExp
             ELSE InfixLoop(leftExp.node, leftExp.p, precedence))

\* if p.peekTokenIs(token.SEMICOLON) { p.nextToken() }
SkipSemicolon(p) == IF peekTokenIs(p, ";") THEN nextToken(p) ELSE p

parseLetStatement(p) ==
    With(expectPeek(p, IDENT), LAMBDA name :
        IF ~name.ok THEN R(NilLetStatement, name.p)
        ELSE
        With(expectPeek(name.p, "="), LAMBDA assign :
            IF ~assign.ok THEN R(NilLetStatement, assign.p)
            ELSE With(parseExpression(nextToken(assign.p), LOWEST), LAMBDA value :
                     IF Panicked(value) THEN value
                     ELSE R(LetStatement(Ident(name.p.curToken.Literal), value.node),
                            SkipSemicolon(value.p)))))

parseReturnStatement(p) ==
    With(parseExpression(nextToken(p), LOWEST), LAMBDA value :
        IF Panicked(value) THEN value
        ELSE R(ReturnStatement(value.node), SkipSemicolon(value.p)))

parseExpressionStatement(p) ==
    With(parseExpression(p, LOWEST), LAMBDA expression :
        IF Panicked(expression) THEN expression
        ELSE R(ExpressionStatement(expression.node), SkipSemicolon(expression.p)))

parseStatement(p) ==
    IF curTokenIs(p, COMMENT) THEN R(Nil, p)
    ELSE IF curTokenIs(p, LET_) THEN parseLetStatement(p)
    ELSE IF curTokenIs(p, RETURN) THEN parseReturnStatement(p)
    ELSE parseExpressionStatement(p)

\* ParseProgram: the Program returned and the parser after it.
ParseProgram(p) ==
    With(StatementsLoop(<<>>, p, FALSE), LAMBDA statements :
        IF Panicked(statements) THEN statements
        ELSE R(Program(statements.node), statements.p))

(***************************************************************************)
(* String() of the nodes (package ast).  orders holds, for each hash       *)
(* literal of the node in the order of the source, the order in which the  *)
(* range over the Go map of the literal yields its pairs.                  *)
(***************************************************************************)
\* node.String()
NodeString(node, orders) ==
    LET Strings(nodes, before) ==
            [i \in 1..Len(nodes) |-> NodeString(nodes[i], For(node, before + i, orders))]
        kind == node.kind
    IN  IF kind \in {"Program", "BlockStatement"} THEN Join(Strings(node.Statements, 0), "")
        ELSE IF kind = "LetStatement"
        THEN "let " \o NodeString(node.Name, For(node, 1, orders)) \o " = "
             \o (IF node.Value # Nil THEN NodeString(node.Value, For(node, 2, orders)) ELSE "")
             \o ";"
        ELSE IF kind = "ReturnStatement"
        THEN "return " \o (IF node.Value # Nil THEN NodeString(node.Value, orders) ELSE "") \o ";"
        ELSE IF kind = "ExpressionStatement"
        THEN IF node.Expression # Nil THEN NodeString(node.Expression, orders) ELSE ""
        ELSE IF kind = "Identifier" THEN node.Value
        ELSE IF kind \in {"Boolean", "StringLiteral", "CommentLiteral"}
        THEN node.Token.Literal
        ELSE IF kind = "IntegerLiteral" THEN Itoa(node.Value)
        ELSE IF kind = "DoubleLiteral" THEN FormatFloat(node.Value, node.Precision)
        ELSE IF kind = "PrefixExpression"
        THEN "(" \o node.Operator \o NodeString(node.Right, orders) \o ")"
        ELSE IF kind = "SuffixExpression"
        THEN "(" \o NodeString(node.Left, orders) \o node.Operator \o ")"
        ELSE IF kind = "InfixExpression"
        THEN "(" \o NodeString(node.Left, For(node, 1, orders)) \o " " \o node.Operator \o " "
             \o NodeString(node.Right, For(node, 2, orders)) \o ")"
        ELSE IF kind = "IfExpression"
        THEN "if (" \o NodeString(node.Condition, For(node, 1, orders)) \o ") {" \o TAB
             \o NodeString(node.Consequence, For(node, 2, orders)) \o "; }"
             \o (IF node.Alternative # Nil
                 THEN " else {" \o NodeString(node.Alternative, For(node, 3, orders)) \o ";}"
                 ELSE "")
        ELSE IF kind = "ArrayLiteral"
        THEN "[" \o Join(Strings(node.Elements, 0), ", ") \o "]"
        ELSE IF kind = "HashLiteral"
        THEN "{" \o Join([i \in 1..Len(node.Pairs) |->
                            NodeString(node.Pairs[orders[1][i]].Key,
                                       For(node, 2 * orders[1][i] - 1, orders))
                            \o ": "
                            \o NodeString(node.Pairs[orders[1][i]].Value,
                                          For(node, 2 * orders[1][i], orders))], ", ")
             \o "}"
        ELSE IF kind = "IndexExpression"
        THEN "(" \o NodeString(node.Left, For(node, 1, orders)) \o "["
             \o NodeString(node.Index, For(node, 2, orders)) \o "])"
        ELSE IF kind = "FunctionLiteral"
        THEN "fn" \o " (" \o Join(Strings(node.Parameters, 0), ", ") \o ") { "
             \o Join([i \in 1..Len(node.Body.Statements) |->
                        NodeString(node.Body.Statements[i],
                                   For(node, Len(node.Parameters) + i, orders)) \o "; "], "")
             \o "};"
        ELSE NodeString(node.Function, For(node, 1, orders))
             \o "(" \o Join(Strings(node.Arguments, 1), ", ") \o ")"

(***************************************************************************)
(* Input lines.  A line is the Program the parser builds from it; the      *)
(* comment beside each family gives the source text.                       *)
(***************************************************************************)
Lits == 0..MaxLit

Lit(n) == IntegerLiteral(n)
Stmt(e) == ExpressionStatement(e)
Let(name, e) == LetStatement(Ident(name), e)
Fn(params, stmts) ==
    FunctionLiteral([i \in 1..Len(params) |-> Ident(params[i])], BlockStatement(stmts))
Call(name, args) == CallExpression(Ident(name), args)
If(cond, cons) == IfExpression(cond, BlockStatement(cons), Nil)
IfElse(cond, cons, alt) == IfExpression(cond, BlockStatement(cons), BlockStatement(alt))
Infix(l, op, r) == InfixExpression(l, op, r)
Half == DoubleLiteral(2, 1)

\* n; m          let a = n; a; m          let a = n; a
\* let f = fn(x) { x }; f(n); m          let f = fn() { n }; f(); m
\* let x = n; x += m; 7
SequenceLines ==
    {Program(<<Stmt(Lit(n)), Stmt(Lit(m))>>) : n, m \in Lits}
    \cup {Program(<<Let("a", Lit(n)), Stmt(Ident("a")), Stmt(Lit(m))>>) : n, m \in Lits}
    \cup {Program(<<Let("a", Lit(n)), Stmt(Ident("a"))>>) : n \in Lits}
    \cup {Program(<<Let("f", Fn(<<"x">>, <<Stmt(Ident("x"))>>)),
                    Stmt(Call("f", <<Lit(n)>>)), Stmt(Lit(m))>>) : n, m \in Lits}
    \cup {Program(<<Let("f", Fn(<<>>, <<Stmt(Lit(n))>>)),
                    Stmt(Call("f", <<>>)), Stmt(Lit(m))>>) : n, m \in Lits}
    \cup {Program(<<Let("x", Lit(n)), Stmt(Infix(Ident("x"), "+=", Lit(m))),
                    Stmt(Lit(7))>>) : n, m \in Lits}

\* The conditions of the if lines: the statements that come first and the
\* condition expression.
Conditions ==
    {[pre |-> <<>>, cond |-> c] :
        c \in {Boolean(TRUE), Boolean(FALSE), NullLiteral, StringLiteral(""),
               If(Boolean(FALSE), <<Stmt(Lit(1))>>)}}
    \cup {[pre |-> <<>>, cond |-> Lit(n)] : n \in Lits}
    \cup {[pre |-> <<>>, cond |-> Infix(Lit(n), op, Lit(m))] :
            n, m \in Lits, op \in {"<", "=="}}
    \cup {[pre |-> <<Let("x", v)>>, cond |-> Ident("x")] :
            v \in {Boolean(TRUE), Boolean(FALSE), NullLiteral, Lit(0)}}
    \cup {[pre |-> <<Let("f", Fn(<<>>, <<Stmt(v)>>))>>, cond |-> Call("f", <<>>)] :
            v \in {Boolean(TRUE), Boolean(FALSE), NullLiteral}}
    \cup {[pre |-> <<Let("f", Fn(<<"a">>, <<Stmt(Ident("a"))>>))>>,
           cond |-> Call("f", <<v>>)] : v \in {Boolean(TRUE), Boolean(FALSE)}}

\* pre; if (cond) { 10 } else { 20 }          pre; if (cond) { 10 }
IfLines ==
    {Program(c.pre \o <<Stmt(IfElse(c.cond, <<Stmt(Lit(10))>>, <<Stmt(Lit(20))>>))>>) :
        c \in Conditions}
    \cup {Program(c.pre \o <<Stmt(If(c.cond, <<Stmt(Lit(10))>>))>>) : c \in Conditions}

Return(e) == ReturnStatement(e)
Yes == Boolean(TRUE)

No == Boolean(FALSE)

\* if (true) { if (true) { return n; } return 7; } m          return n; 7
\* let f = fn() { if (true) { return n; } 7 }; f(); m
\* let f = fn(x) { if (x < 1) { if (true) { return x } } return 7 }; f(n)
\* let y = if (true) { return n }; m
\* let f = fn() { let y = if (true) { return n }; 7 }; f()
\* 1 + if (true) { return n }
ReturnLines ==
    {Program(<<Stmt(If(Yes, <<Stmt(If(Yes, <<Return(Lit(n))>>)), Return(Lit(7))>>)),
               Stmt(Lit(m))>>) : n, m \in Lits}
    \cup {Program(<<Return(Lit(n)), Stmt(Lit(7))>>) : n \in Lits}
    \cup {Program(<<Let("f", Fn(<<>>, <<Stmt(If(Yes, <<Return(Lit(n))>>)), Stmt(Lit(7))>>)),
                    Stmt(Call("f", <<>>)), Stmt(Lit(m))>>) : n, m \in Lits}
    \cup {Program(<<Let("f", Fn(<<"x">>,
                                <<Stmt(If(Infix(Ident("x"), "<", Lit(1)),
                                          <<Stmt(If(Yes, <<Return(Ident("x"))>>))>>)),
                                  Return(Lit(7))>>)),
                    Stmt(Call("f", <<Lit(n)>>))>>) : n \in Lits}
    \cup {Program(<<Let("y", If(Yes, <<Return(Lit(n))>>)), Stmt(Lit(m))>>) : n, m \in Lits}
    \cup {Program(<<Let("f", Fn(<<>>, <<Let("y", If(Yes, <<Return(Lit(n))>>)),
                                        Stmt(Lit(7))>>)),
                    Stmt(Call("f", <<>>))>>) : n \in Lits}
    \cup {Program(<<Stmt(Infix(Lit(1), "+", If(Yes, <<Return(Lit(n))>>)))>>) : n \in Lits}

\* l / m          -l / m          let x = l; x /= m
DivideLines ==
    {Program(<<Stmt(Infix(Lit(l), "/", Lit(m)))>>) : l, m \in Lits}
    \cup {Program(<<Stmt(Infix(PrefixExpression("-", Lit(l)), "/", Lit(m)))>>) :
            l, m \in Lits}
    \cup {Program(<<Let("x", Lit(l)), Stmt(Infix(Ident("x"), "/=", Lit(m)))>>) :
            l, m \in Lits}

AssignOps == {"+=", "-=", "*=", "/="}

\* let x = n; x op= m; x          let x = 0.5; x op= n; x
\* let x = n; x op= 0.5; x        let x = "a"; x op= "b"; x
\* let x = n; x op= true; x       let f = fn(x) { x op= m; x }; f(n)
\* let x = n; x op= x++; x
AssignLines ==
    {Program(<<Let("x", l), Stmt(Infix(Ident("x"), op, r)), Stmt(Ident("x"))>>) :
        op \in AssignOps,
        l \in {Lit(n) : n \in Lits} \cup {Half, StringLiteral("a")},
        r \in {Lit(n) : n \in Lits}
              \cup {Half, StringLiteral("b"), Yes, SuffixExpression("++", Ident("x"))}}
    \cup {Program(<<Let("f", Fn(<<"x">>, <<Stmt(Infix(Ident("x"), op, Lit(m))),
                                           Stmt(Ident("x"))>>)),
                    Stmt(Call("f", <<Lit(n)>>))>>) : op \in AssignOps, n, m \in Lits}

\* let x = n; let y = x op= m; y          let x = n; (x op= m) + 1
\* let x = n; x op= m
AssignValueLines ==
    {Program(<<Let("x", Lit(n)), Let("y", Infix(Ident("x"), op, Lit(m))),
               Stmt(Ident("y"))>>) : op \in AssignOps, n, m \in Lits}
    \cup {Program(<<Let("x", Lit(n)),
                    Stmt(Infix(Infix(Ident("x"), op, Lit(m)), "+", Lit(1)))>>) :
            op \in AssignOps, n, m \in Lits}
    \cup {Program(<<Let("x", Lit(n)), Stmt(Infix(Ident("x"), op, Lit(m)))>>) :
            op \in AssignOps, n, m \in Lits}

StepOps == {"++", "--"}

\* prefix, or suffix, op applied to e
Step(fix, op, e) ==
    IF fix = "prefix" THEN PrefixExpression(op, e) ELSE SuffixExpression(op, e)

\* let x = n; x++     let x = n; ++x     let x = 0.5; x--     let x = n; x++; x
\* let f = fn(x) { x++; x }; f(n)     let x = n; let f = fn() { x++; x }; f()
StepLines ==
    {Program(<<Let("x", v), Stmt(Step(fix, op, Ident("x")))>>) :
        fix \in {"prefix", "suffix"}, op \in StepOps,
        v \in {Lit(n) : n \in Lits} \cup {Half}}
    \cup {Program(<<Let("x", Lit(n)), Stmt(Step(fix, op, Ident("x"))), Stmt(Ident("x"))>>) :
            fix \in {"prefix", "suffix"}, op \in StepOps, n \in Lits}
    \cup {Program(<<Let("f", Fn(<<"x">>, <<Stmt(Step(fix, op, Ident("x"))),
                                           Stmt(Ident("x"))>>)),
                    Stmt(Call("f", <<Lit(n)>>))>>) :
            fix \in {"prefix", "suffix"}, op \in StepOps, n \in Lits}
    \cup {Program(<<Let("x", Lit(n)),
                    Let("f", Fn(<<>>, <<Stmt(Step(fix, op, Ident("x"))),
                                        Stmt(Ident("x"))>>)),
                    Stmt(Call("f", <<>>))>>) :
            fix \in {"prefix", "suffix"}, op \in StepOps, n \in Lits}

One == Lit(1)
OnePair == HashLiteral(<<[Key |-> One, Value |-> Lit(2)]>>)

\* let x = "a"; ++x     let x = true; x--     let x = [1]; x++     let x = {1: 2}; --x
\* ++n     ++true     ++[1][0]     let x = n; ++[x][0]     let f = fn() { 1 }; ++f()
\* let f = fn(a) { a }; ++f(n)     let x = n; let f = fn() { x }; --f()
BadStepLines ==
    {Program(<<Let("x", v), Stmt(Step(fix, op, Ident("x")))>>) :
        fix \in {"prefix", "suffix"}, op \in StepOps,
        v \in {StringLiteral("a"), Yes, ArrayLiteral(<<One>>), OnePair}}
    \cup {Program(<<Stmt(PrefixExpression(op, e))>>) :
            op \in StepOps,
            e \in {Lit(n) : n \in Lits}
                  \cup {Yes, IndexExpression(ArrayLiteral(<<One>>), Lit(0))}}
    \cup {Program(<<Let("x", Lit(n)),
                    Stmt(PrefixExpression(op, IndexExpression(ArrayLiteral(<<Ident("x")>>),
                                                              Lit(0))))>>) :
            op \in StepOps, n \in Lits}
    \cup {Program(<<Let("f", Fn(<<>>, <<Stmt(One)>>)),
                    Stmt(PrefixExpression(op, Call("f", <<>>)))>>) : op \in StepOps}
    \cup {Program(<<Let("f", Fn(<<"a">>, <<Stmt(Ident("a"))>>)),
                    Stmt(PrefixExpression(op, Call("f", <<Lit(n)>>)))>>) :
            op \in StepOps, n \in Lits}
    \cup {Program(<<Let("x", Lit(n)), Let("f", Fn(<<>>, <<Stmt(Ident("x"))>>)),
                    Stmt(PrefixExpression(op, Call("f", <<>>)))>>) :
            op \in StepOps, n \in Lits}

\* let x = n; let f = fn() { x }; let g = fn() { let x = m; f() }; g()
CapturedNotCaller(n, m) ==
    Program(<<Let("x", Lit(n)), Let("f", Fn(<<>>, <<Stmt(Ident("x"))>>)),
              Let("g", Fn(<<>>, <<Let("x", Lit(m)), Stmt(Call("f", <<>>))>>)),
              Stmt(Call("g", <<>>))>>)

\* let f = fn() { y }; let y = n; f()
BoundLater(n) ==
    Program(<<Let("f", Fn(<<>>, <<Stmt(Ident("y"))>>)), Let("y", Lit(n)),
              Stmt(Call("f", <<>>))>>)

\* let y = n; let f = fn() { y }; let y = m; f()
ChangedLater(n, m) ==
    Program(<<Let("y", Lit(n)), Let("f", Fn(<<>>, <<Stmt(Ident("y"))>>)),
              Let("y", Lit(m)), Stmt(Call("f", <<>>))>>)

\* let f = fn(a) { if (a < 1) { 0 } else { 1 + f(a - 1) } }; f(n)
CallsItself(n) ==
    Program(<<Let("f", Fn(<<"a">>,
                          <<Stmt(IfElse(Infix(Ident("a"), "<", Lit(1)),
                                        <<Stmt(Lit(0))>>,
                                        <<Stmt(Infix(Lit(1), "+",
                                              Call("f", <<Infix(Ident("a"), "-",
                                                                Lit(1))>>)))>>))>>)),
              Stmt(Call("f", <<Lit(n)>>))>>)

\* let g = fn(a) { fn(b) { a + b } }; let f = g(n); f(m)
CapturedCall(n, m) ==
    Program(<<Let("g", Fn(<<"a">>,
                          <<Stmt(Fn(<<"b">>,
                                    <<Stmt(Infix(Ident("a"), "+", Ident("b")))>>))>>)),
              Let("f", Call("g", <<Lit(n)>>)),
              Stmt(Call("f", <<Lit(m)>>))>>)

\* let f = fn() { a }; let g = fn(a) { f() }; g(n)
CallerNotSeen(n) ==
    Program(<<Let("f", Fn(<<>>, <<Stmt(Ident("a"))>>)),
              Let("g", Fn(<<"a">>, <<Stmt(Call("f", <<>>))>>)),
              Stmt(Call("g", <<Lit(n)>>))>>)

ClosureLines ==
    {CapturedNotCaller(n, m) : n, m \in Lits}
    \cup {BoundLater(n) : n \in Lits}
    \cup {ChangedLater(n, m) : n, m \in Lits}
    \cup {CallsItself(n) : n \in Lits}
    \cup {CapturedCall(n, m) : n, m \in Lits}
    \cup {CallerNotSeen(n) : n \in Lits}

\* The first k of the arguments n, m, 7.
Args(k, n, m) == SubSeq(<<Lit(n), Lit(m), Lit(7)>>, 1, k)

\* let f = fn(a, b) { body }; f(the first k of n, m, 7)
ArityLine(k, n, m, body) ==
    Program(<<Let("f", Fn(<<"a", "b">>, <<Stmt(body)>>)), Stmt(Call("f", Args(k, n, m)))>>)

\* The bodies of the arity lines:  a     b     a + b     7
Bodies == {Ident("a"), Ident("b"), Infix(Ident("a"), "+", Ident("b")), Lit(7)}

ArityLines == {ArityLine(k, n, m, body) : k \in 0..3, n, m \in Lits, body \in Bodies}

\* The longest array literal of the lines.
MaxLen == 3

\* The integer i as the source writes it: a literal, or - and a literal.
Num(i) == IF i < 0 THEN PrefixExpression("-", Lit(-i)) ELSE Lit(i)

\* [10, 11, ...] of n elements
Arr(n) == ArrayLiteral([k \in 1..n |-> Lit(9 + k)])

\* [10, ...][i]     let a = [10, ...]; a[i]     let a = [10, ...]; let x = i; a[x]
IndexLine(form, n, i) ==
    IF form = "literal" THEN Program(<<Stmt(IndexExpression(Arr(n), Num(i)))>>)
    ELSE IF form = "array" THEN
        Program(<<Let("a", Arr(n)), Stmt(IndexExpression(Ident("a"), Num(i)))>>)
    ELSE Program(<<Let("a", Arr(n)), Let("x", Num(i)),
                   Stmt(IndexExpression(Ident("a"), Ident("x")))>>)

IndexForms == {"literal", "array", "both"}

IndexLines == {IndexLine(form, n, i) : form \in IndexForms, n \in 0..MaxLen, i \in -1..(MaxLen + 1)}

\* let a = [10, ...]; let b = push(a, n); let c = push(a, m); b[k]
PushTwice(k, n, m) ==
    Program(<<Let("a", Arr(k)),
              Let("b", Call("push", <<Ident("a"), Lit(n)>>)),
              Let("x", Call("push", <<Ident("a"), Lit(m)>>)),
              Stmt(IndexExpression(Ident("b"), Lit(k)))>>)

\* let a = [10, ...]; let b = push(rest(a), n); let x = push(a, m); b[k - 1]
PushRest(k, n, m) ==
    Program(<<Let("a", Arr(k)),
              Let("b", Call("push", <<Call("rest", <<Ident("a")>>), Lit(n)>>)),
              Let("x", Call("push", <<Ident("a"), Lit(m)>>)),
              Stmt(IndexExpression(Ident("b"), Lit(k - 1)))>>)

\* let a = [10, ...]; let b = rest(a); let x = push(a, m); let y = push(b, n); x[k]
RestPush(k, n, m) ==
    Program(<<Let("a", Arr(k)),
              Let("b", Call("rest", <<Ident("a")>>)),
              Let("x", Call("push", <<Ident("a"), Lit(m)>>)),
              Let("y", Call("push", <<Ident("b"), Lit(n)>>)),
              Stmt(IndexExpression(Ident("x"), Lit(k)))>>)

PushLines ==
    {PushTwice(k, n, m) : k \in 1..MaxLen, n, m \in Lits}
    \cup {PushRest(k, n, m) : k \in 1..MaxLen, n, m \in Lits}
    \cup {RestPush(k, n, m) : k \in 1..MaxLen, n, m \in Lits}

\* Operands of ??, each with the value it has:
\*   nil    if (false) { 1 }    false    true    0    1    "s"
Operands ==
    <<[e |-> NullLiteral, v |-> NULL],
      [e |-> If(Boolean(FALSE), <<Stmt(One)>>), v |-> NULL],
      [e |-> Boolean(FALSE), v |-> FalseObj],
      [e |-> Yes, v |-> TrueObj],
      [e |-> Lit(0), v |-> Integer(0)],
      [e |-> One, v |-> Integer(1)],
      [e |-> StringLiteral("s"), v |-> String("s")]>>

\* l ?? r     let x = l; x ?? r     let x = l; let y = r; x ?? y
NullOrLine(form, l, r) ==
    IF form = "literal" THEN Program(<<Stmt(Infix(l, "??", r))>>)
    ELSE IF form = "left" THEN Program(<<Let("x", l), Stmt(Infix(Ident("x"), "??", r))>>)
    ELSE Program(<<Let("x", l), Let("y", r), Stmt(Infix(Ident("x"), "??", Ident("y")))>>)

NullOrForms == {"literal", "left", "both"}

NullOrLines ==
    {NullOrLine(form, Operands[i].e, Operands[j].e) :
        form \in NullOrForms, i, j \in DOMAIN Operands}

\* The builtins that take an array as their (first) argument.
ArrayBuiltins == {"first", "last", "rest", "push"}

\* name(e)     let x = e; name(x)          (push takes a second argument, 1)
BuiltinLine(form, name, e) ==
    LET more == IF name = "push" THEN <<One>> ELSE <<>>
    IN  IF form = "literal" THEN Program(<<Stmt(Call(name, <<e>> \o more))>>)
        ELSE Program(<<Let("x", e), Stmt(Call(name, <<Ident("x")>> \o more))>>)

BuiltinForms == {"literal", "name"}

BuiltinLines ==
    {BuiltinLine(form, name, Operands[i].e) :
        form \in BuiltinForms, name \in ArrayBuiltins, i \in DOMAIN Operands}

\* {k1: v1, k2: v2}
TwoPairs(k1, v1, k2, v2) == HashLiteral(<<[Key |-> k1, Value |-> v1], [Key |-> k2, Value |-> v2]>>)

\* x++
Bump == SuffixExpression("++", Ident("x"))

\* {k1: n, k2: m}[k]     let x = 0; let a = {k1: x++, k2: x++}; a[k]
\* let x = 0; let a = {x++: n, x++: m}; a[k]
HashLines ==
    {Program(<<Stmt(IndexExpression(TwoPairs(Lit(k1), Lit(n), Lit(k2), Lit(m)), Lit(k)))>>) :
        k1, k2, k \in 0..1, n, m \in Lits}
    \cup {Program(<<Let("x", Lit(0)), Let("a", TwoPairs(Lit(k1), Bump, Lit(k2), Bump)),
                    Stmt(IndexExpression(Ident("a"), Lit(k)))>>) : k1, k2, k \in 0..1}
    \cup {Program(<<Let("x", Lit(0)), Let("a", TwoPairs(Bump, Lit(n), Bump, Lit(m))),
                    Stmt(IndexExpression(Ident("a"), Lit(k)))>>) : k \in 0..1, n, m \in Lits}

\* Expressions whose evaluation yields an Error:
\*   y (not bound)     true + 1     first(1)     -true
Bads ==
    {Ident("y"), Infix(Yes, "+", One), Call("first", <<One>>), PrefixExpression("-", Yes)}

\* Statements that write the binding of x:   x++     x += 1
Writes == {Stmt(Bump), Stmt(Infix(Ident("x"), "+=", One))}

\* What follows  let x = 0; let f = fn(a, b) { a }; let g = fn() { bad; w };
\* in the lines below: bad where a block, a let or return statement, a
\* call, an argument list, an array or hash literal, an index expression, a
\* prefix or suffix operator, a compound assignment, an infix expression or
\* an if evaluates it, with writes of x around it.
Failing(bad, w) ==
    {<<Stmt(bad), w>>,
     <<Stmt(If(Yes, <<Stmt(bad), w>>)), w>>,
     <<Stmt(If(Yes, <<w, Stmt(bad)>>)), w>>,
     <<Let("a", bad), w>>,
     <<Return(bad), w>>,
     <<Stmt(If(Yes, <<Return(bad), w>>)), w>>,
     <<Stmt(Call("g", <<>>)), w>>,
     <<Let("a", Call("g", <<>>)), w>>,
     <<Stmt(Call("f", <<bad, Bump>>)), w>>,
     <<Stmt(Call("f", <<Bump, bad>>)), w>>,
     <<Stmt(CallExpression(bad, <<Bump>>)), w>>,
     <<Stmt(ArrayLiteral(<<bad, Bump>>)), w>>,
     <<Stmt(ArrayLiteral(<<Bump, bad, Bump>>)), w>>,
     <<Stmt(TwoPairs(bad, Bump, One, Bump)), w>>,
     <<Stmt(TwoPairs(One, bad, Lit(2), Bump)), w>>,
     <<Stmt(IndexExpression(bad, Bump)), w>>,
     <<Stmt(IndexExpression(Arr(1), bad)), w>>,
     <<Stmt(IndexExpression(ArrayLiteral(<<Bump>>), bad)), w>>,
     <<Stmt(PrefixExpression("!", bad)), w>>,
     <<Stmt(PrefixExpression("++", bad)), w>>,
     <<Stmt(SuffixExpression("--", bad)), w>>,
     <<Stmt(Infix(Ident("x"), "+=", bad)), w>>,
     <<Stmt(Infix(bad, "+=", Bump)), w>>,
     <<Stmt(Infix(bad, "+", Bump)), w>>,
     <<Stmt(Infix(Bump, "+", bad)), w>>,
     <<Stmt(Infix(bad, "??", Bump)), w>>,
     <<Stmt(If(bad, <<w>>)), w>>,
     <<Stmt(IfElse(bad, <<w>>, <<w>>)), w>>}

ErrorLine(bad, w, rest) ==
    Program(<<Let("x", Lit(0)),
              Let("f", Fn(<<"a", "b">>, <<Stmt(Ident("a"))>>)),
              Let("g", Fn(<<>>, <<Stmt(bad), w>>))>> \o rest)

ErrorLines ==
    UNION {{ErrorLine(bad, w, rest) : rest \in Failing(bad, w)} : bad \in Bads, w \in Writes}

\* let f = fn(a) { if (a < 1) { let y = n; y } else { y } }; let b = f(0); f(1)
SecondCall(n) ==
    Program(<<Let("f", Fn(<<"a">>,
                          <<Stmt(IfElse(Infix(Ident("a"), "<", Lit(1)),
                                        <<Let("y", Lit(n)), Stmt(Ident("y"))>>,
                                        <<Stmt(Ident("y"))>>))>>)),
              Let("b", Call("f", <<Lit(0)>>)), Stmt(Call("f", <<Lit(1)>>))>>)

\* let x = n; let f = fn(a) { let x = a; let a = 7; x }; let b = f(m); x
CapturedKept(n, m) ==
    Program(<<Let("x", Lit(n)),
              Let("f", Fn(<<"a">>, <<Let("x", Ident("a")), Let("a", Lit(7)),
                                     Stmt(Ident("x"))>>)),
              Let("b", Call("f", <<Lit(m)>>)), Stmt(Ident("x"))>>)

\* let x = n; let f = fn(x) { let y = x; y };
\* let g = fn() { let x = 7; let b = f(m); x + b }; g()
CallerKept(n, m) ==
    Program(<<Let("x", Lit(n)),
              Let("f", Fn(<<"x">>, <<Let("y", Ident("x")), Stmt(Ident("y"))>>)),
              Let("g", Fn(<<>>, <<Let("x", Lit(7)), Let("b", Call("f", <<Lit(m)>>)),
                                  Stmt(Infix(Ident("x"), "+", Ident("b")))>>)),
              Stmt(Call("g", <<>>))>>)

\* let x = n; let f = fn() { x op= m; x }; f()
ShadowAssign(op, n, m) ==
    Program(<<Let("x", Lit(n)),
              Let("f", Fn(<<>>, <<Stmt(Infix(Ident("x"), op, Lit(m))), Stmt(Ident("x"))>>)),
              Stmt(Call("f", <<>>))>>)

\* let x = n; let f = fn() { x++; x }; f()     (and x--, ++x, --x)
ShadowStep(fix, op, n) ==
    Program(<<Let("x", Lit(n)),
              Let("f", Fn(<<>>, <<Stmt(Step(fix, op, Ident("x"))), Stmt(Ident("x"))>>)),
              Stmt(Call("f", <<>>))>>)

ShadowLines ==
    {ShadowAssign(op, n, m) : op \in AssignOps, n, m \in Lits}
    \cup {ShadowStep(fix, op, n) : fix \in {"prefix", "suffix"}, op \in StepOps, n \in Lits}

\* The expressions of the order lines: x++, the unbound y, and a call whose
\* callee is  if (x++ < 1) { f } .
Missing == Ident("y")
ChosenCallee == If(Infix(Bump, "<", One), <<Stmt(Ident("f"))>>)

\* let x = 0; let f = fn(a, b) { a - b }; followed by the statement of e
OrderLine(e) ==
    Program(<<Let("x", Lit(0)),
              Let("f", Fn(<<"a", "b">>, <<Stmt(Infix(Ident("a"), "-", Ident("b")))>>)),
              Stmt(e)>>)

\* f(x++, x++)     [x++, x++][i]     x++ - x++     if (x++ < 1) { f }(x, 0)
\* with the value of each and the x it leaves
Ordered ==
    {[e |-> Call("f", <<Bump, Bump>>), v |-> -1, x |-> 2],
     [e |-> IndexExpression(ArrayLiteral(<<Bump, Bump>>), Lit(0)), v |-> 0, x |-> 2],
     [e |-> IndexExpression(ArrayLiteral(<<Bump, Bump>>), Lit(1)), v |-> 1, x |-> 2],
     [e |-> Infix(Bump, "-", Bump), v |-> -1, x |-> 2],
     [e |-> CallExpression(ChosenCallee, <<Ident("x"), Lit(0)>>), v |-> 1, x |-> 1]}

\* y(x++, x++)     f(y, x++)     f(x++, y)     [y, x++]     [x++, y]
\* y + x++     x++ + y          with the x each leaves
Stopped ==
    {[e |-> Call("y", <<Bump, Bump>>), x |-> 0],
     [e |-> Call("f", <<Missing, Bump>>), x |-> 0],
     [e |-> Call("f", <<Bump, Missing>>), x |-> 1],
     [e |-> ArrayLiteral(<<Missing, Bump>>), x |-> 0],
     [e |-> ArrayLiteral(<<Bump, Missing>>), x |-> 1],
     [e |-> Infix(Missing, "+", Bump), x |-> 0],
     [e |-> Infix(Bump, "+", Missing), x |-> 1]}

OrderLines == {OrderLine(o.e) : o \in Ordered} \cup {OrderLine(o.e) : o \in Stopped}

FrameLines ==
    {SecondCall(n) : n \in Lits}
    \cup {CapturedKept(n, m) : n, m \in Lits}
    \cup {CallerKept(n, m) : n, m \in Lits}

\* return if (true) { return n }          let y = if (true) { return n }; y
\* let f = fn() { return if (true) { return n } }; f()
WrappedLines ==
    {Program(<<Return(If(Yes, <<Return(Lit(n))>>))>>) : n \in Lits}
    \cup {Program(<<Let("y", If(Yes, <<Return(Lit(n))>>)), Stmt(Ident("y"))>>) : n \in Lits}
    \cup {Program(<<Let("f", Fn(<<>>, <<Return(If(Yes, <<Return(Lit(n))>>))>>)),
                    Stmt(Call("f", <<>>))>>) : n \in Lits}

\* let x = 0; followed by the statement  left op right
LogicLine(left, op, right) == Program(<<Let("x", Lit(0)), Stmt(Infix(left, op, right))>>)

LogicOps == {"&&", "||", "??"}

\* Right operands that write x:   x++ < 1     x++     x += 1
Less == Infix(Bump, "<", One)
PlusOne == Infix(Ident("x"), "+=", One)

\* Left operands that decide the value, each with a right operand that
\* writes x and with the value of the expression:
\*   false && x++ < 1     true || x++ < 1     1 ?? x++     true ?? x++ < 1
\* and left operands that do not:
\*   true && x++ < 1     false || x++ < 1     null ?? x++
Eager ==
    {[left |-> No, op |-> "&&", right |-> Less, v |-> FalseObj],
     [left |-> Yes, op |-> "||", right |-> Less, v |-> TrueObj],
     [left |-> One, op |-> "??", right |-> Bump, v |-> Integer(1)],
     [left |-> Yes, op |-> "??", right |-> Less, v |-> TrueObj],
     [left |-> Yes, op |-> "&&", right |-> Less, v |-> TrueObj],
     [left |-> No, op |-> "||", right |-> Less, v |-> TrueObj],
     [left |-> If(No, <<Stmt(One)>>), op |-> "??", right |-> Less, v |-> TrueObj]}

\* The same left operands with  x += 1  on the right.
EagerAssign ==
    {[left |-> No, op |-> "&&"], [left |-> Yes, op |-> "||"], [left |-> One, op |-> "??"]}

LogicLines ==
    {LogicLine(c.left, c.op, c.right) : c \in Eager}
    \cup {LogicLine(c.left, c.op, PlusOne) : c \in EagerAssign}
    \cup {LogicLine(bad, op, right) : bad \in Bads, op \in LogicOps,
                                      right \in {Less, Bump, PlusOne}}

\* let x = v; followed by the statement e, which fails on x; tag is the type
\* of v and msg the Error with that type in it:
\*   let x = 1; x + true     let x = true; 1 - x     let x = true; -x
\*   let x = true; x++       let x = 1; x[0]         let x = 1; first(x)
\*   let x = 1; len(x)       let x = true; len(x)
NamedLine(v, e) == Program(<<Let("x", v), Stmt(e)>>)

Named ==
    {[v |-> One, e |-> Infix(Ident("x"), "+", Yes),
      msg |-> "type mismatch: INTEGER + BOOLEAN"],
     [v |-> Yes, e |-> Infix(One, "-", Ident("x")),
      msg |-> "type mismatch: INTEGER - BOOLEAN"],
     [v |-> Yes, e |-> PrefixExpression("-", Ident("x")),
      msg |-> "unknown operator: -BOOLEAN"],
     [v |-> Yes, e |-> Bump,
      msg |-> "unknown operator: BOOLEAN++"],
     [v |-> One, e |-> IndexExpression(Ident("x"), Lit(0)),
      msg |-> "index operator not supported: INTEGER"],
     [v |-> One, e |-> Call("first", <<Ident("x")>>),
      msg |-> "argument to 'first' must be ARRAY, got INTEGER"],
     [v |-> One, e |-> Call("len", <<Ident("x")>>),
      msg |-> "argument to 'len' not supported, got INTEGER, want STRING or ARRAY"],
     [v |-> Yes, e |-> Call("len", <<Ident("x")>>),
      msg |-> "argument to 'len' not supported, got BOOLEAN, want STRING or ARRAY"]}

NamedLines == {NamedLine(c.v, c.e) : c \in Named}

\* quit()     exit()     quit     exit
QuitLines ==
    {Program(<<Stmt(Call(name, <<>>))>>) : name \in {"quit", "exit"}}
    \cup {Program(<<Stmt(Ident(name))>>) : name \in {"quit", "exit"}}

\* Lines whose value is an array that holds the nil of a compound
\* assignment, and arrays and a function without one:
\* let x = 1; [x += 1]     let x = 1; [x, x -= 1, x]     [1, "a", true, 2.50]
\* [[], [0.5]]     fn(x, y) { x; return y; }
PrintLines ==
    {Program(<<Let("x", Lit(1)), Stmt(ArrayLiteral(<<Infix(Ident("x"), "+=", Lit(1))>>))>>),
     Program(<<Let("x", Lit(1)),
               Stmt(ArrayLiteral(<<Ident("x"), Infix(Ident("x"), "-=", Lit(1)),
                                   Ident("x")>>))>>),
     Program(<<Stmt(ArrayLiteral(<<Lit(1), StringLiteral("a"), Yes, DoubleLiteral(10, 2)>>))>>),
     Program(<<Stmt(ArrayLiteral(<<ArrayLiteral(<<>>),
                                   ArrayLiteral(<<DoubleLiteral(2, 1)>>)>>))>>),
     Program(<<Stmt(Fn(<<"x", "y">>, <<Stmt(Ident("x")), ReturnStatement(Ident("y"))>>))>>)}

\* The last step up that an Integer of 32 bits takes, and a push that append
\* grows from a capacity that is no power of two, the 15 of the rest of an
\* array of 16 elements:
\* let x = 2147483646; x++     let x = 2147483646; ++x; x
\* let a = [0, ..., 0]; push(rest(a), 1)
EdgeLines ==
    {Program(<<Let("x", Lit(2147483646)), Stmt(Step(fix, "++", Ident("x")))>>) :
        fix \in {"prefix", "suffix"}}
    \cup {Program(<<Let("x", Lit(2147483646)), Stmt(Step(fix, "++", Ident("x"))),
                    Stmt(Ident("x"))>>) : fix \in {"prefix", "suffix"}}
    \cup {Program(<<Let("a", ArrayLiteral([i \in 1..16 |-> Lit(0)])),
                    Stmt(Call("push", <<Call("rest", <<Ident("a")>>), Lit(1)>>))>>)}

\* The trees of the families above.
Trees ==
    SequenceLines \cup IfLines \cup ReturnLines \cup DivideLines \cup AssignLines
    \cup AssignValueLines \cup StepLines \cup BadStepLines \cup ClosureLines
    \cup ArityLines \cup IndexLines \cup PushLines
    \cup NullOrLines \cup HashLines \cup BuiltinLines
    \cup ErrorLines \cup FrameLines \cup ShadowLines \cup OrderLines
    \cup WrappedLines \cup LogicLines \cup NamedLines \cup QuitLines \cup PrintLines
    \cup EdgeLines

RECURSIVE Parsed(_)
\* Every node of the sequence is Parsed.
AllParsed(nodes) == \A i \in 1..Len(nodes) : Parsed(nodes[i])

\* The tree is one that ParseProgram yields for some line: the lexer has no
\* token for &&, || and ??, no source text gives a NullLiteral, and the
\* parser takes a compound assignment, and a suffix, only on a name.
Parsed(node) ==
    IF node.kind \in {"Program", "BlockStatement"} THEN AllParsed(node.Statements)
    ELSE IF node.kind \in {"LetStatement", "ReturnStatement"} THEN Parsed(node.Value)
    ELSE IF node.kind = "ExpressionStatement" THEN Parsed(node.Expression)
    ELSE IF node.kind = "NullLiteral" THEN FALSE
    ELSE IF node.kind = "PrefixExpression" THEN Parsed(node.Right)
    ELSE IF node.kind = "SuffixExpression" THEN node.Left.kind = "Identifier"
    ELSE IF node.kind = "InfixExpression"
    THEN /\ node.Operator \notin {"&&", "||", "??"}
         /\ InArray(node.Operator, modOps) => node.Left.kind = "Identifier"
         /\ Parsed(node.Left) /\ Parsed(node.Right)
    ELSE IF node.kind = "IfExpression"
    THEN /\ Parsed(node.Condition) /\ Parsed(node.Consequence)
         /\ node.Alternative # Nil => Parsed(node.Alternative)
    ELSE IF node.kind = "FunctionLiteral" THEN Parsed(node.Body)
    ELSE IF node.kind = "CallExpression"
    THEN Parsed(node.Function) /\ AllParsed(node.Arguments)
    ELSE IF node.kind = "ArrayLiteral" THEN AllParsed(node.Elements)
    ELSE IF node.kind = "HashLiteral"
    THEN \A i \in 1..Len(node.Pairs) :
            Parsed(node.Pairs[i].Key) /\ Parsed(node.Pairs[i].Value)
    ELSE IF node.kind = "IndexExpression" THEN Parsed(node.Left) /\ Parsed(node.Index)
    ELSE TRUE

\* The first line of a session: the Program of a line of source text.
FirstLines == Trees \ {tree \in Trees : ~Parsed(tree)}

\* x     x += 1     x++     f(1)     let y = 2; y     if (x) { 10 } else { 20 }
\* x++ + true     first(x++)
LaterLines ==
    {Program(<<Stmt(Ident("x"))>>),
     Program(<<Stmt(Infix(Ident("x"), "+=", Lit(1)))>>),
     Program(<<Stmt(SuffixExpression("++", Ident("x")))>>),
     Program(<<Stmt(Call("f", <<Lit(1)>>))>>),
     Program(<<Let("y", Lit(2)), Stmt(Ident("y"))>>),
     Program(<<Stmt(IfElse(Ident("x"), <<Stmt(Lit(10))>>, <<Stmt(Lit(20))>>))>>),
     Program(<<Stmt(Infix(Bump, "+", Yes))>>),
     Program(<<Stmt(Call("first", <<Bump>>))>>)}

(***************************************************************************)
(* The REPL (repl.Start): one environment for the session; each turn of    *)
(* the loop reads a line, parses it, evaluates the Program and writes the  *)
(* Inspect() of the value to out.  A panic ends the process.  The prompt   *)
(* and the farewell go to the standard output, not to out, and are left    *)
(* out of the model.                                                       *)
(***************************************************************************)
Init ==
    /\ environments = <<NewEnvironment>>
    /\ mem = <<>>
    /\ next = 1
    /\ line = Program(<<>>)
    /\ evaluated = Nil
    /\ trace = <<>>
    /\ pc = "prompt"
    /\ out = <<>>
    /\ nlines = 0
    /\ lexer = Nil
    /\ calls = <<>>
    /\ runs = <<>>

\* One run of the parser.
Run(source) ==
    With(ParseProgram(NewParser(NewLexer(source))), LAMBDA r :
        [source |-> source, program |-> r.node, errors |-> r.p.errors,
         panic |-> r.p.panic, unmodelled |-> r.p.unmodelled])

\* The lines, with the white space at their ends trimmed, that Start takes
\* for a wish to leave, and the Program of each.
QuitTexts == {"quit()", "exit()", "quit", "exit"}

QuitLine(text) ==
    IF text \in {"quit", "exit"} THEN Program(<<Stmt(Ident(text))>>)
    ELSE Program(<<Stmt(Call(SubSeq(text, 1, 4), <<>>))>>)

\* Any text that is none of the four: "quit;" has the Program of "quit".
OtherText == "..."

\* The trimmed texts a line with the given Program can have, as far as Start
\* tells them apart.
Typed(program) == {text \in QuitTexts : QuitLine(text) = program} \cup {OtherText}

\* The case of the switch on the message (lines 84 to 87).
Leaves(text, val) ==
    /\ text \in QuitTexts
    /\ val.type = ERROROBJ
    /\ val.message \in {"identifier not found: quit", "identifier not found: exit"}

\* Start reaches io.WriteString(out, evaluated.Inspect()).
Prints(text, val) == val # Nil /\ val.type # "PANIC" /\ ~Leaves(text, val)

\* Eval(program, env) of one turn: what the evaluation with the result r
\* (its value and the state it left) leaves behind.
Evaluation(r) ==
    /\ r.val.type # "UNMODELLED"
    /\ environments' = r.st.heap
    /\ mem' = r.st.mem
    /\ next' = r.st.next
    /\ trace' = r.st.trace
    /\ evaluated' = r.val

\* The turn after the evaluation of the line text with the result r, whose
\* value has the Inspect() printed: nothing more for a nil value; the end of
\* the loop on quit() and exit() and the next turn on quit and exit, when
\* the name is not bound; the value and a new line written to out otherwise,
\* unless Inspect() panics.
Result(text, r, printed) ==
    /\ Evaluation(r)
    /\ Prints(text, r.val) => printed.type # "UNMODELLED"
    /\ pc' = IF r.val.type = "PANIC" THEN "aborted"
             ELSE IF r.val = Nil THEN "prompt"
             ELSE IF Leaves(text, r.val)
             THEN (IF text \in {"quit()", "exit()"} THEN "ended" ELSE "prompt")
             ELSE IF printed.type = "PANIC" THEN "aborted"
             ELSE "prompt"
    /\ out' = IF Prints(text, r.val) /\ printed.type # "PANIC"
              THEN out \o <<printed.str, "\n">>
              ELSE out

Turn(text, r) == Result(text, r, Inspect(r.val, r.st))

\* One turn of the loop of Start on a line that parses without errors to
\* program.
Start(program) ==
    /\ pc = "prompt"
    /\ nlines <= MaxFollow
    /\ \E order \in Orders, text \in Typed(program) :
         Turn(text, Eval(program, 1, [heap |-> environments, mem |-> mem, next |-> next,
                                      trace |-> <<>>, order |-> order]))
    /\ line' = program
    /\ nlines' = nlines + 1
    /\ UNCHANGED <<lexer, calls, runs>>

\* The first line of the session, and a later one.
ReadFirst == \E program \in FirstLines : nlines = 0 /\ Start(program)

ReadLater == \E program \in LaterLines : nlines > 0 /\ Start(program)

\* MONKEYFROWN of package repl.
MONKEYFROWN ==
    "         __,__\n"
    \o "   .--. .-\" \"-. .--.\n"
    \o "/ .. \\/ .-. .-. \\/ .. \\\n"
    \o "| | | '| / Y \\ |' | | |\n"
    \o "|| \\ \\ \\ * | * / / / ||\n"
    \o " \\ '- ,\\.-\"\"\"-./, -' /\n"
    \o "  ''-' /_ ^ ^ _\\ '-''\n"
    \o "      \\ \\.~~~./ /\n"
    \o "      | \\.~~~./ |\n"
    \o "      '._'-=-'_.'\n"
    \o "        '-----'\n"

\* What printParserErrors writes to out.
printParserErrors(errors) ==
    <<MONKEYFROWN, "Woops! We ran into some monkey business here!\n", " parser errors:\n">>
    \o [i \in 1..Len(errors) |-> "\t" \o errors[i] \o "\n"]

\* Lines the parser has errors for, each with its run of the parser.
BadLines == {Run(source) : source \in {"let x 5", "let = 1", "1 +", "(1", "x +=", "}"}}

\* One turn of the loop of Start on a line with parser errors: the errors
\* are written and nothing is evaluated.
ReadUnparsed ==
    \E run \in BadLines :
        /\ pc = "prompt"
        /\ nlines <= MaxFollow
        /\ ~run.unmodelled
        /\ run.panic # "" \/ run.errors # <<>>
        /\ pc' = IF run.panic # "" THEN "aborted" ELSE "prompt"
        /\ out' = IF run.panic # "" THEN out ELSE out \o printParserErrors(run.errors)
        /\ line' = IF run.panic # "" THEN line ELSE run.program
        /\ nlines' = nlines + 1
        /\ evaluated' = Nil
        /\ trace' = <<>>
        /\ UNCHANGED <<environments, mem, next, lexer, calls, runs>>

\* The input of Start is at its end: Start returns.
EndOfInput ==
    /\ pc = "prompt"
    /\ pc' = "ended"
    /\ UNCHANGED <<environments, mem, next, line, evaluated, trace, out, nlines, lexer,
                   calls, runs>>

Next == ReadFirst \/ ReadLater \/ ReadUnparsed \/ EndOfInput

Spec == Init /\ [][Next]_vars

(***************************************************************************)
(* The evaluator on its own: a caller of package evaluator hands the       *)
(* exported Eval a tree it built and a new environment.  The trees of the  *)
(* operators &&, || and ?? and of NullLiteral, which Eval has cases for    *)
(* and no source text yields, are evaluated this way only.  Nothing is     *)
(* written to out.                                                         *)
(***************************************************************************)
Evaluate(r) ==
    /\ Evaluation(r)
    /\ pc' = IF r.val.type = "PANIC" THEN "aborted" ELSE "prompt"

EvalTree ==
    \E tree \in Trees, order \in Orders :
        /\ nlines = 0
        /\ pc = "prompt"
        /\ Evaluate(Eval(tree, 1, [heap |-> environments, mem |-> mem, next |-> next,
                                   trace |-> <<>>, order |-> order]))
        /\ line' = tree
        /\ nlines' = nlines + 1
        /\ UNCHANGED <<out, lexer, calls, runs>>

EvalNext == EvalTree

EvalSpec == Init /\ [][EvalNext]_vars

(***************************************************************************)
(* The lexer on its own, as the tests of package lexer drive it: NewLexer  *)
(* on an input, then NextToken time after time.                            *)
(***************************************************************************)
RECURSIVE StringsOver(_, _)
\* The strings of at most n elements of the alphabet in a row.
StringsOver(alphabet, n) ==
    IF n = 0 THEN {""}
    ELSE LET shorter == StringsOver(alphabet, n - 1)
         IN  shorter \cup {s \o c : s \in shorter, c \in alphabet}

\* The bytes of the inputs: a letter, a digit, the characters that open
\* two-character tokens, comments, doubles and strings, white space, an
\* illegal character and the byte 0.
Bytes == {"a", "1", ".", "+", "=", "/", "\"", "\\", " ", "\n", "#", NUL}

\* Numbers whose digits after the point are, and are not, an int64.
LongFractions ==
    {"1.99999999999999999999 x", "0.9223372036854775808", "0.9223372036854775807"}

Inputs == StringsOver(Bytes, MaxInput) \cup LongFractions

REPLVars == <<environments, mem, next, line, evaluated, trace, pc, out, nlines>>

LexInput ==
    \E input \in Inputs :
        /\ lexer = Nil
        /\ runs = <<>>
        /\ lexer' = NewLexer(input)
        /\ UNCHANGED <<calls, runs, REPLVars>>

LexNextToken ==
    /\ lexer # Nil
    /\ Len(calls) < MaxCalls
    /\ LET n == NextToken(lexer)
       IN  /\ lexer' = n.l
           /\ calls' = Append(calls, [before |-> lexer, tok |-> n.tok])
    /\ UNCHANGED <<runs, REPLVars>>

LexerNext == LexInput \/ LexNextToken

LexerSpec == Init /\ [][LexerNext]_vars

(***************************************************************************)
(* The parser on a source, as Start and the tests run it: NewLexer,        *)
(* NewParser, ParseProgram; and again on the String() of a Program that    *)
(* parsed without errors.                                                  *)
(***************************************************************************)
\* The texts of the tokens the token streams are made of.
Texts == {"fn ", "let ", "x ", "( ", ") ", ", ", "+ ", "++ "}

\* Sources that parse without errors, with statements in a row, string
\* literals, function literals, if-expressions and hash literals.
Canonical ==
    {"let x = 1; x", "1; 2", "a; -b", "return x;", "x++ + --y", "x += 1", "a.b",
     "1 + 2 * 3", "!true == false", "1.5 + 2.25", "[1, 2][0]", "f(1, 2)", "{1: 2}[1]",
     "{1: 2, 3: 4}", "{1: 2, 3: 4, 5: 6}",
     "[{1: 2, 3: 4}, {5: 6, 7: 8}]", "\"hello\"", "\"a b\"", "\"\"", "\"1 +\"",
     "fn(x) { x }", "fn(x, y) { x + y; }", "fn() { let a = 1; }", "fn(x) { x }(1)",
     "let f = fn(x) { return x; };", "if (x) { 1 }", "if (x) { 1 } else { 2 }",
     "if (x) {}", "if (x) { let a = 1; }", "if (x) { a; b }", "// c"}

\* The infix operators of the precedence table that stand between two operands.
LadderOps == DOMAIN precedences \ {"(", "["}

\* a op1 b op2 c          a op1 b; - c
Chain(op1, op2) == "a " \o op1 \o " b " \o op2 \o " c"
Ended(op1) == "a " \o op1 \o " b; - c"

Chains == {Chain(op1, op2) : op1, op2 \in LadderOps} \cup {Ended(op1) : op1 \in LadderOps}

\* Sources with a line comment (on a line of its own, after a statement,
\* between the tokens of a statement), each with the source without it.
Commented ==
    {[src |-> "// c\n1", bare |-> "\n1"],
     [src |-> "1;\n// c\n2", bare |-> "1;\n\n2"],
     [src |-> "1; // c", bare |-> "1; "],
     [src |-> "1 // c\n2", bare |-> "1 \n2"],
     [src |-> "let x = 1; // c\nx", bare |-> "let x = 1; \nx"],
     [src |-> "let x = // c\n1;", bare |-> "let x = \n1;"],
     [src |-> "1 + // c\n2", bare |-> "1 + \n2"],
     [src |-> "f(1, // c\n2)", bare |-> "f(1, \n2)"]}

Sources ==
    StringsOver(Texts, MaxTokens) \cup Canonical \cup Chains
    \cup {c.src : c \in Commented} \cup {c.bare : c \in Commented}

ParseSource ==
    \E source \in Sources :
        /\ lexer = Nil
        /\ runs = <<>>
        /\ runs' = <<Run(source)>>
        /\ ~runs'[1].unmodelled
        /\ UNCHANGED <<lexer, calls, REPLVars>>

\* The parser on the String() of the Program of the last run.
Reparse ==
    /\ runs # <<>>
    /\ Len(runs) < MaxRuns
    /\ runs[Len(runs)].panic = ""
    /\ runs[Len(runs)].errors = <<>>
    /\ \E orders \in OrdersOf(runs[Len(runs)].program) :
         /\ runs' = Append(runs, Run(NodeString(runs[Len(runs)].program, orders)))
         /\ ~runs'[Len(runs')].unmodelled
    /\ UNCHANGED <<lexer, calls, REPLVars>>

ParserNext == ParseSource \/ Reparse

ParserSpec == Init /\ [][ParserNext]_vars

(***************************************************************************)
(* What the trace of the last line shows.                                  *)
(***************************************************************************)
\* The line was evaluated to its end.
Evaluated == nlines > 0 /\ pc = "prompt"

\* The events of one kind, in order.
Events(kind) == SelectSeq(trace, LAMBDA e : e.ev = kind)

\* The statements the loop of evalProgram entered and what they yielded.
TopEntered == SelectSeq(trace, LAMBDA e : e.ev = "statement" /\ e.loop = "Program")
TopYielded == SelectSeq(trace, LAMBDA e : e.ev = "yield" /\ e.loop = "Program")

\* The value a value stands for: the value an identifier reference found.
ValueOf(v) == IF v.type = IDENTIFIEROBJ THEN v.value ELSE v

\* C1: a program none of whose statements yields a ReturnValue or an Error
\* has every statement evaluated, in source order, and its value is the
\* value of its final statement.
C1_EveryStatementInOrder ==
    (/\ Evaluated
     /\ Len(line.Statements) > 0
     /\ \A i \in 1..Len(TopYielded) :
            TopYielded[i].val.type \notin {RETURNVALUEOBJ, ERROROBJ})
    => /\ [i \in 1..Len(TopEntered) |-> TopEntered[i].node] = line.Statements
       /\ evaluated = ValueOf(TopYielded[Len(TopYielded)].val)

\* The branch the condition value v selects in the if-expression ie.
BranchFor(ie, v) ==
    IF v # FalseObj /\ v # NULL THEN "consequence"
    ELSE IF ie.Alternative # Nil THEN "alternative"
    ELSE "none"

\* C2: an if-expression evaluates its consequence exactly when the value of
\* its condition is neither FALSE nor NULL, and otherwise its alternative, or
\* yields NULL when it has none, whatever expression the condition is.
C2_ConsequenceIffTruthy ==
    \A i \in 1..Len(trace) :
        trace[i].ev = "if" =>
            trace[i].branch = BranchFor(trace[i].node, ValueOf(trace[i].val))

\* A return statement completed at position i of the trace.
Returned(i) ==
    /\ trace[i].ev = "yield"
    /\ trace[i].node.kind = "ReturnStatement"
    /\ trace[i].val.type = RETURNVALUEOBJ

\* C3: once a return statement has executed, no later statement is evaluated
\* in the same function call, or in the program when it executed outside any
\* call, and that call, or the program, yields the returned value.
C3_ReturnEndsTheCall ==
    \A i \in 1..Len(trace) :
        Returned(i) =>
            /\ \A j \in (i + 1)..Len(trace) :
                   ~(trace[j].ev = "statement" /\ trace[j].env = trace[i].env)
            /\ \A j \in (i + 1)..Len(trace) :
                   (trace[j].ev = "call" /\ trace[j].env = trace[i].env)
                       => trace[j].val = trace[i].val.value
            /\ (trace[i].env = 1 /\ Evaluated) => evaluated = trace[i].val.value

\* An Integer divided by the Integer 0 at position i of the trace.
DividedByZero(i) ==
    /\ trace[i].ev = "infix"
    /\ trace[i].node.Operator \in {"/", "/="}
    /\ ValueOf(trace[i].left).type = INTEGEROBJ
    /\ ValueOf(trace[i].right) = Integer(0)

\* C4: an Integer divided by 0, by / or by /=, yields NAN: neither an Error
\* nor the end of the process.
C4_DivisionByZeroIsNan ==
    \A i \in 1..Len(trace) : DividedByZero(i) => trace[i].val = NAN /\ pc # "aborted"

\* The operator a compound assignment applies.
PlainOp(op) ==
    CASE op = "+=" -> "+" [] op = "-=" -> "-" [] op = "*=" -> "*" [] op = "/=" -> "/"

\* The quotient of l by r, r not 0, rounded towards zero.
Quotient(l, r) ==
    LET al == IF l < 0 THEN -l ELSE l
        ar == IF r < 0 THEN -r ELSE r
    IN  IF (l < 0) = (r < 0) THEN al \div ar ELSE -(al \div ar)

\* The arithmetic of l op r on Integers, r not 0 under /.
Arith(op, l, r) ==
    CASE op = "+" -> l + r [] op = "-" -> l - r [] op = "*" -> l * r
      [] op = "/" -> Quotient(l, r)

\* let x = n; x op= m; x
AssignThenRead(n, op, m) ==
    Program(<<Let("x", Lit(n)), Stmt(Infix(Ident("x"), op, Lit(m))), Stmt(Ident("x"))>>)

\* C5: after x op= e whose result is not an Error, x bound in the current
\* environment, that environment binds x to the value of x op e computed
\* from the value x had, and a following read of x sees it.
C5_AssignmentWritesBack ==
    /\ \A i \in 1..Len(trace) :
           trace[i].ev = "assign" =>
               LET l == ValueOf(trace[i].left)
                   r == ValueOf(trace[i].right)
                   op == PlainOp(trace[i].node.Operator)
               IN  /\ trace[i].bound = evalInfixExpressionByType(op, l, r)
                   /\ (l.type = INTEGEROBJ /\ r.type = INTEGEROBJ /\ (op = "/" => r.int # 0))
                          => trace[i].bound = Integer(Arith(op, l.int, r.int))
                   /\ (l.type = STRINGOBJ /\ r.type = STRINGOBJ)
                          => trace[i].bound = String(l.str \o r.str)
    /\ \A n \in Lits, m \in Lits \ {0}, op \in AssignOps :
           (nlines = 1 /\ line = AssignThenRead(n, op, m))
               => pc # "aborted" /\ evaluated = Integer(Arith(PlainOp(op), n, m))

\* A compound assignment to x has written x, and a read of x followed.
C5_Witness ==
    /\ nlines = 1
    /\ line = AssignThenRead(2, "*=", 2)
    /\ evaluated = Integer(4)
    /\ \E i \in 1..Len(trace) : trace[i].ev = "assign" /\ trace[i].bound = Integer(4)

\* C6: x op= e that produces no Error yields the new value of x as the value
\* of the expression, so that an operand or a let can use it.
C6_AssignmentYieldsNewValue ==
    /\ \A i \in 1..Len(trace) : trace[i].ev = "assign" => trace[i].val = trace[i].bound
    /\ \A n \in Lits, m \in Lits \ {0}, op \in AssignOps :
           (nlines = 1
            /\ line = Program(<<Let("x", Lit(n)), Let("y", Infix(Ident("x"), op, Lit(m))),
                                Stmt(Ident("y"))>>))
               => pc # "aborted" /\ evaluated = Integer(Arith(PlainOp(op), n, m))

\* The operand expression of an increment or decrement.
OperandNode(node) == IF node.kind = "PrefixExpression" THEN node.Right ELSE node.Left

\* v is an Integer or a Double.
IsNumber(v) == v.type \in {INTEGEROBJ, DOUBLEOBJ}

\* The number v plus d, d a whole number.
Plus(v, d) ==
    IF v.type = INTEGEROBJ THEN Integer(v.int + d) ELSE Double(v.q + d * DScale, v.precision)

\* The change ++ and -- make.
Delta(op) == IF op = "++" THEN 1 ELSE -1

\* let x = v; op x (prefix)          let x = v; x op (suffix)
StepLine(fix, op, v) == Program(<<Let("x", v), Stmt(Step(fix, op, Ident("x")))>>)

\* C7: with x bound to the Integer or Double n, x++ and x-- yield n and ++x
\* and --x yield the new value, and all leave x bound to n + 1 or n - 1.
C7_StepYieldsAndBinds ==
    /\ \A i \in 1..Len(trace) :
           (/\ trace[i].ev = "step"
            /\ OperandNode(trace[i].node).kind = "Identifier"
            /\ IsNumber(ValueOf(trace[i].operand)))
           => LET n == ValueOf(trace[i].operand)
                  new == Plus(n, Delta(trace[i].node.Operator))
              IN  /\ trace[i].bound = new
                  /\ trace[i].val = IF trace[i].node.kind = "SuffixExpression" THEN n ELSE new
    /\ \A n \in Lits, op \in StepOps, fix \in {"prefix", "suffix"} :
           (nlines = 1 /\ line = StepLine(fix, op, Lit(n)))
               => /\ pc # "aborted"
                  /\ evaluated = Integer(IF fix = "suffix" THEN n ELSE n + Delta(op))
                  /\ Bound(environments, 1, "x") = Integer(n + Delta(op))
    /\ \A op \in StepOps, fix \in {"prefix", "suffix"} :
           (nlines = 1 /\ line = StepLine(fix, op, Half))
               => /\ pc # "aborted"
                  /\ evaluated = IF fix = "suffix" THEN Double(2, 1)
                                 ELSE Double(2 + Delta(op) * DScale, 1)
                  /\ Bound(environments, 1, "x") = Double(2 + Delta(op) * DScale, 1)

\* x++ has yielded the old value of x and left the new one.
C7_Witness ==
    /\ nlines = 1
    /\ line = StepLine("suffix", "++", Lit(1))
    /\ evaluated = Integer(1)
    /\ Bound(environments, 1, "x") = Integer(2)

\* The Error of an increment or decrement of a value of type t.
IsUnknownOperator(val, op, t) ==
    /\ val.type = ERROROBJ
    /\ val.message \in {"unknown operator: " \o op \o t, "unknown operator: " \o t \o op}

\* C8: ++ or -- whose operand expression is not an identifier bound to an
\* Integer or a Double yields the Error unknown operator and changes no
\* binding.
C8_BadStepIsError ==
    \A i \in 1..Len(trace) :
        (/\ trace[i].ev = "step"
         /\ ~(/\ OperandNode(trace[i].node).kind = "Identifier"
              /\ IsNumber(ValueOf(trace[i].operand))))
        => /\ IsUnknownOperator(trace[i].val, trace[i].node.Operator,
                                ValueOf(trace[i].operand).type)
           /\ ~trace[i].changed

\* C9: the body of a function resolves a free name through the environment
\* the function literal was evaluated in, not through the caller's, and sees
\* what that environment binds at the time of the call.
C9_BodySeesCapturedEnvironment ==
    nlines = 1 =>
        \A n, m \in Lits :
            /\ line = CapturedNotCaller(n, m) => evaluated = Integer(n)
            /\ line = BoundLater(n) => evaluated = Integer(n)
            /\ line = ChangedLater(n, m) => evaluated = Integer(m)
            /\ line = CallsItself(n) => evaluated = Integer(n)
            /\ line = CapturedCall(n, m) => evaluated = Integer(n + m)
            /\ line = CallerNotSeen(n) => evaluated = newError("identifier not found: a")

\* A function bound by let has called itself, twice.
C9_Witness ==
    /\ nlines = 1
    /\ line = CallsItself(2)
    /\ evaluated = Integer(2)
    /\ Len(Events("call")) = 3

\* The value of the body of an arity line, a bound to n and b to m.
BodyValue(body, n, m) ==
    IF body = Ident("a") THEN n
    ELSE IF body = Ident("b") THEN m
    ELSE IF body = Lit(7) THEN 7
    ELSE n + m

\* The parameters the body of an arity line refers to.
Refers(body) ==
    IF body = Ident("a") THEN {1}
    ELSE IF body = Ident("b") THEN {2}
    ELSE IF body = Lit(7) THEN {}
    ELSE {1, 2}

\* C10: a call with more arguments than parameters ignores the extra ones; a
\* call with fewer binds those it has and fails only when the body refers to
\* a parameter that has no argument.
C10_ArityIsNotChecked ==
    nlines = 1 =>
        \A k \in 0..3, n, m \in Lits, body \in Bodies :
            (line = ArityLine(k, n, m, body) /\ \A i \in Refers(body) : i <= k)
                => pc # "aborted" /\ evaluated = Integer(BodyValue(body, n, m))

\* C11: indexing an array of n elements with the integer i yields element i
\* when 0 <= i < n, and otherwise the Error
\* "array index out of bounds[0, n-1]: i"; no index and no length, the empty
\* array included, aborts the evaluation.
C11_IndexInBoundsOrError ==
    \A form \in IndexForms, n \in 0..MaxLen, i \in -1..(MaxLen + 1) :
        (nlines = 1 /\ line = IndexLine(form, n, i)) =>
            /\ pc # "aborted"
            /\ evaluated =
                   IF 0 <= i /\ i < n THEN Integer(10 + i)
                   ELSE Error("array index out of bounds[0, " \o Itoa(n - 1) \o "]: "
                              \o Itoa(i))

\* The empty array was indexed with 0, through identifiers.
C11_Witness ==
    /\ nlines = 1
    /\ line = IndexLine("both", 0, 0)
    /\ evaluated = Error("array index out of bounds[0, -1]: 0")
    /\ pc = "prompt"
\* C12: builtins never change an array value: once b = push(a, n) (or
\* b = push(rest(a), n), or x = push(a, m)) has been evaluated, later calls
\* of push and rest on a or on another array leave the pushed element where
\* it was, so reading it back gives the value that was pushed.
C12_PushedElementStays ==
    \A k \in 1..MaxLen, n, m \in Lits :
        /\ (nlines = 1 /\ line \in {PushTwice(k, n, m), PushRest(k, n, m)})
               => evaluated = Integer(n)
        /\ (nlines = 1 /\ line = RestPush(k, n, m)) => evaluated = Integer(m)
\* C13: l ?? r yields the value of r when the value of l is NULL (written as
\* nil, produced by an expression, or reached through an identifier bound to
\* it) and the value of l in every other case, false and 0 included.
C13_NullOrYieldsLeftUnlessNull ==
    \A form \in NullOrForms, i, j \in DOMAIN Operands :
        (nlines = 1 /\ line = NullOrLine(form, Operands[i].e, Operands[j].e)) =>
            /\ pc = "prompt"
            /\ evaluated = IF Operands[i].v = NULL THEN Operands[j].v ELSE Operands[i].v

\* let x = false; let y = 1; x ?? y was evaluated to false.
C13_Witness ==
    /\ nlines = 1
    /\ line = NullOrLine("both", Boolean(FALSE), One)
    /\ evaluated = FalseObj
\* The evaluation of a program in a fresh environment in which every hash
\* literal is ranged over in source order.
InSourceOrder(program) ==
    Eval(program, 1, [heap |-> <<NewEnvironment>>, mem |-> <<>>, next |-> 1,
                      trace |-> <<>>, order |-> [i \in 1..MaxRanges |-> SourceOrder]])

\* C14: evaluation is deterministic: every evaluation of a source in a fresh
\* environment yields the same value and the same final bindings (those of
\* the evaluation that takes the pairs of each hash literal in source order),
\* hash literals that repeat a key or have side effects included.
C14_SameValueAndBindings ==
    nlines = 1 =>
        /\ evaluated = InSourceOrder(line).val
        /\ environments = InSourceOrder(line).st.heap
\* C15: for every token stream ParseProgram returns a Program; no input makes
\* the parser abort, malformed parameter lists and operators with a missing
\* operand included.
C15_ParserNeverAborts ==
    \A i \in 1..Len(runs) : runs[i].panic = "" /\ runs[i].program # Nil

\* Characters remain for a call of NextToken: the white space it skips does
\* not end the input.
Remain(l) == skipWhitespace(l).position < Len(l.input)

\* C16: NextToken returns {EOF, ""} exactly when no input characters remain,
\* and once it has returned EOF every later call returns {EOF, ""} again.
C16_EOFAtTheEndAndForEver ==
    \A i \in 1..Len(calls) :
        /\ calls[i].tok = Token(EOF, "") <=> ~Remain(calls[i].before)
        /\ calls[i].tok.Type = EOF =>
               \A j \in (i + 1)..Len(calls) : calls[j].tok = Token(EOF, "")

\* C18: for every source that parses without errors, parsing the canonical
\* string succeeds too and yields a Program with the same canonical string.
C18_CanonicalStringIsFixed ==
    (Len(runs) >= 2 /\ runs[1].panic = "" /\ runs[1].errors = <<>>) =>
        IF runs[2].panic # "" \/ runs[2].errors # <<>> THEN FALSE
        ELSE \A orders \in OrdersOf(runs[2].program) :
                NodeString(runs[2].program, orders) = runs[2].source

\* C17: first, last, rest or push called with a value that is not an array
\* as its (first) argument yields the Error "argument to '<name>' must be
\* ARRAY, got <T>", <name> the builtin called and <T> the type tag of the
\* value.
C17_NotAnArrayMessage ==
    \A form \in BuiltinForms, name \in ArrayBuiltins, i \in DOMAIN Operands :
        (nlines = 1 /\ line = BuiltinLine(form, name, Operands[i].e)) =>
            /\ pc # "aborted"
            /\ evaluated = Error("argument to '" \o name \o "' must be ARRAY, got "
                                 \o Operands[i].v.type)

\* The first return of an Error in the evaluation of the line.
FirstFailed == CHOOSE i \in 1..Len(trace) :
                   trace[i].ev = "error" /\ \A j \in 1..(i - 1) : trace[j].ev # "error"

AnError == \E i \in 1..Len(trace) : trace[i].ev = "error"

\* C19: once an evaluation inside the Eval of a line has returned an Error,
\* no binding of any environment is written until Eval returns, and Eval
\* returns that Error.
C19_ErrorStopsTheEvaluation ==
    (nlines > 0 /\ AnError) =>
        /\ pc # "aborted"
        /\ evaluated = trace[FirstFailed].val
        /\ environments = trace[FirstFailed].heap

\* g() has returned the Error of y in  let a = g(); x++ : x was written
\* before the Error only.
C19_Witness ==
    /\ nlines = 1
    /\ line = ErrorLine(Ident("y"), Stmt(Bump), <<Let("a", Call("g", <<>>)), Stmt(Bump)>>)
    /\ AnError
    /\ trace[FirstFailed].val = Error("identifier not found: y")
    /\ evaluated = Error("identifier not found: y")
    /\ Bound(environments, 1, "x") = Integer(0)
    /\ ~Get(environments, 1, "a").ok

\* The line is one expression statement.
OneExpression(program) ==
    Len(program.Statements) = 1 /\ program.Statements[1].kind = "ExpressionStatement"

\* C20: when the evaluation of a line that is one expression statement
\* yields an Error, every binding of every environment there was before the
\* evaluation has the value it had.
C20_ErrorLeavesTheBindings ==
    [][(OneExpression(line') /\ isError(evaluated'))
          => \A e \in DOMAIN environments : environments'[e] = environments[e]]_vars

\* The parameters of a function value, as a set of names.
ParameterNames(fn) == {fn.parameters[i].Value : i \in 1..Len(fn.parameters)}

\* C21: a call of a user function runs in an environment made for it, which
\* encloses the captured one and binds the parameters only (nothing an
\* earlier call bound); the call adds or changes no binding of an
\* environment that was there before it, the captured one and the caller's
\* among them.
C21_CallRunsInFreshEnvironment ==
    \A i \in 1..Len(trace) :
        trace[i].ev = "frame" =>
            /\ trace[i].env = Len(trace[i].before) + 1
            /\ trace[i].frame.outer = trace[i].fn.env
            /\ \A n \in Names :
                  trace[i].frame.store[n] # Absent => n \in ParameterNames(trace[i].fn)
            /\ \A e \in DOMAIN trace[i].before : trace[i].after[e] = trace[i].before[e]
            /\ (nlines = 1 /\ line \in {SecondCall(n) : n \in Lits})
                  => evaluated = newError("identifier not found: y")
            /\ \A n, m \in Lits :
                  /\ line = CapturedKept(n, m) /\ nlines = 1 => evaluated = Integer(n)
                  /\ line = CallerKept(n, m) /\ nlines = 1 => evaluated = Integer(7 + m)

\* f has run twice: its first call bound y by let, its second one found no y;
\* the captured environment binds neither y nor a.
C21_Witness ==
    /\ nlines = 1
    /\ line = SecondCall(2)
    /\ Len(Events("frame")) = 2
    /\ Events("frame")[1].after[2].store["y"] = Integer(2)
    /\ Events("frame")[2].frame.store["y"] = Absent
    /\ evaluated = newError("identifier not found: y")
    /\ ~Get(environments, 1, "y").ok
    /\ ~Get(environments, 1, "a").ok

\* C22: a compound assignment, an increment or a decrement of x in the body
\* of a function, x bound in the enclosing environment only, binds the new
\* value in the environment of the call and leaves the enclosing binding as
\* it was; the body reads the new value afterwards.
C22_WriteLandsInTheCallsEnvironment ==
    nlines = 1 =>
        /\ \A op \in AssignOps, n \in Lits, m \in Lits \ {0} :
              line = ShadowAssign(op, n, m) =>
                  /\ pc # "aborted"
                  /\ environments[1].store["x"] = Integer(n)
                  /\ environments[2].outer = 1
                  /\ environments[2].store["x"] = Integer(Arith(PlainOp(op), n, m))
                  /\ evaluated = Integer(Arith(PlainOp(op), n, m))
        /\ \A fix \in {"prefix", "suffix"}, op \in StepOps, n \in Lits :
              line = ShadowStep(fix, op, n) =>
                  /\ pc # "aborted"
                  /\ environments[1].store["x"] = Integer(n)
                  /\ environments[2].outer = 1
                  /\ environments[2].store["x"] = Integer(n + Delta(op))
                  /\ evaluated = Integer(n + Delta(op))

\* x -= 2 has run in a call, x bound to 1 outside: the call's environment
\* binds x to -1 and the enclosing one still binds it to 1.
C22_Witness ==
    /\ nlines = 1
    /\ line = ShadowAssign("-=", 1, 2)
    /\ environments[1].store["x"] = Integer(1)
    /\ environments[2].store["x"] = Integer(-1)
    /\ evaluated = Integer(-1)

\* C23: the callee is evaluated before the arguments, an argument before the
\* next one, an element of an array literal before the next one and the left
\* operand before the right one; after an Error of one of them the later
\* ones are not evaluated and no body of a function is entered.
C23_EffectsInSourceOrder ==
    nlines = 1 =>
        /\ \A o \in Ordered :
              line = OrderLine(o.e) =>
                  /\ pc # "aborted"
                  /\ evaluated = Integer(o.v)
                  /\ environments[1].store["x"] = Integer(o.x)
        /\ \A o \in Stopped :
              line = OrderLine(o.e) =>
                  /\ pc # "aborted"
                  /\ evaluated = newError("identifier not found: y")
                  /\ environments[1].store["x"] = Integer(o.x)
                  /\ Len(Events("step")) = o.x
                  /\ Len(environments) = 1
                  /\ \A i \in 1..Len(trace) :
                        trace[i].ev = "statement" => trace[i].loop = "Program"

\* The callee  if (x++ < 1) { f }  was evaluated before the argument x, which
\* read 1.
C23_Witness ==
    /\ nlines = 1
    /\ line = OrderLine(CallExpression(ChosenCallee, <<Ident("x"), Lit(0)>>))
    /\ evaluated = Integer(1)
    /\ Len(Events("frame")) = 1

\* C24: the value of the evaluation of a Program and the value of a call of
\* a user function are never a ReturnValue.
C24_NoReturnValueLeaves ==
    Evaluated =>
        /\ evaluated.type # RETURNVALUEOBJ
        /\ \A i \in 1..Len(trace) : trace[i].ev = "call" => trace[i].val.type # RETURNVALUEOBJ

\* C25: the String() of a parsed Program lists the pairs of its hash literals
\* in the order of the source, each time it is called.
C25_PairsInSourceOrder ==
    \A i \in 2..Len(runs) : runs[i].source = NodeString(runs[i - 1].program, SourceOrders(runs[i - 1].program))

\* C26: a op1 b op2 c parses as (a op1 (b op2 c)) when the precedence of op2
\* is above that of op1 and as ((a op1 b) op2 c) otherwise, for every two
\* infix operators of the precedence table; a ; ends the expression.
C26_HigherPrecedenceBindsTighter ==
    \A i \in 1..Len(runs), op1 \in LadderOps :
        /\ \A op2 \in LadderOps :
              runs[i].source = Chain(op1, op2) =>
                  /\ runs[i].panic = ""
                  /\ runs[i].errors = <<>>
                  /\ runs[i].program =
                        Program(<<Stmt(IF precedences[op2] > precedences[op1]
                                       THEN Infix(Ident("a"), op1,
                                                  Infix(Ident("b"), op2, Ident("c")))
                                       ELSE Infix(Infix(Ident("a"), op1, Ident("b")), op2,
                                                  Ident("c")))>>)
        /\ runs[i].source = Ended(op1) =>
              /\ runs[i].panic = ""
              /\ runs[i].errors = <<>>
              /\ runs[i].program =
                    Program(<<Stmt(Infix(Ident("a"), op1, Ident("b"))),
                              Stmt(PrefixExpression("-", Ident("c")))>>)

\* C27: the Program of a source with a line comment, wherever the comment
\* stands, is the Program of the source without the comment, which has no
\* comment node.
C27_CommentsAreStripped ==
    \A i \in 1..Len(runs), c \in Commented :
        runs[i].source = c.src =>
            /\ runs[i].panic = ""
            /\ runs[i].errors = Run(c.bare).errors
            /\ runs[i].program = Run(c.bare).program

\* The lexer after the i-th call of NextToken.
AfterCall(i) == IF i < Len(calls) THEN calls[i + 1].before ELSE lexer

\* C28: every call of NextToken returns a token; a call made while input
\* characters remain consumes at least one of them; and EOF has been returned
\* once len(input) + 1 calls are made.  (A slice of the input out of its range,
\* the one way NextToken can fail, is an error of SubSeq in the model.)
C28_EveryCallAdvances ==
    /\ \A i \in 1..Len(calls) :
           /\ calls[i].tok.Type \in STRING /\ calls[i].tok.Literal \in STRING
           /\ calls[i].before.position < Len(calls[i].before.input) =>
                  AfterCall(i).position > calls[i].before.position
    /\ (lexer # Nil /\ Len(calls) > Len(lexer.input)) =>
           \E i \in 1..Len(calls) : calls[i].tok.Type = EOF

\* A digit run followed by "." and no digits: one ILLEGAL token that consumes
\* the whole input, then EOF, in len(input) + 1 calls.
C28_Witness ==
    /\ lexer # Nil /\ lexer.input = "1."
    /\ Len(calls) = 3
    /\ calls[1].tok = Token(ILLEGAL, "1.")
    /\ calls[2].tok = Token(EOF, "")

\* The writes of x that the evaluation of the line made.
WritesOfX == Len(Events("step")) + Len(Events("assign"))

\* C29: the right operand of &&, || and ?? is evaluated, and its write of x
\* takes place, whatever the left operand is; after an Error of the left
\* operand the right one is not evaluated and the Error is the value.
C29_BothOperandsAreEvaluated ==
    nlines = 1 =>
        /\ \A c \in Eager :
              line = LogicLine(c.left, c.op, c.right) =>
                  /\ pc = "prompt"
                  /\ evaluated = c.v
                  /\ WritesOfX = 1
                  /\ environments[1].store["x"] = Integer(1)
        /\ \A c \in EagerAssign :
              line = LogicLine(c.left, c.op, PlusOne) =>
                  /\ WritesOfX = 1
                  /\ environments[1].store["x"] = Integer(1)
        /\ \A bad \in Bads, op \in LogicOps, right \in {Less, Bump, PlusOne} :
              line = LogicLine(bad, op, right) =>
                  /\ pc = "prompt"
                  /\ evaluated.type = ERROROBJ
                  /\ WritesOfX = 0
                  /\ environments[1].store["x"] = Integer(0)

\* false && x++ < 1  was evaluated: the value is false and x is 1.
C29_Witness ==
    /\ nlines = 1
    /\ line = LogicLine(No, "&&", Less)
    /\ evaluated = FalseObj
    /\ Len(Events("step")) = 1
    /\ environments[1].store["x"] = Integer(1)

\* C30: the Error of an infix, prefix, suffix or index operation or of a
\* builtin whose offending operand is a name carries the type of the value
\* the name is bound to.
C30_ErrorsNameTheValueType ==
    nlines = 1 =>
        \A c \in Named :
            line = NamedLine(c.v, c.e) => evaluated = newError(c.msg)

====
